---- MODULE Spec2Model ----
(***************************************************************************)
(* State-machine model of the IGC admin backend: the users and team        *)
(* registrations collections behind DatabaseService, the JWT middleware,   *)
(* and the HTTP handlers registered by SetupRoutes (plus the startup       *)
(* bootstrap and the unrouted CreateJudge handler).                        *)
(*                                                                         *)
(* gin serves every request in its own goroutine and every DatabaseService *)
(* call is a round trip to the store, so a handler is modelled as one      *)
(* action per round trip: the first action covers the middleware, the      *)
(* binding and everything up to the result of the first database call,     *)
(* each later action one further database call and the code up to the next *)
(* call or the response.  A request between two of its calls is an entry   *)
(* of `inflight'; steps of other requests may come in between.             *)
(*                                                                         *)
(* Strings are TLA+ strings; a member's full name, an institution and a    *)
(* query parameter are sequences of one-rune strings because the code      *)
(* inspects their characters (a rune outside printable ASCII is written    *)
(* "U+XXXX").  ObjectIDs are the strings "u<n>" (users) and "t<n>"         *)
(* (teams); "dead" is a well-formed hex id that was never generated and    *)
(* "zz" is not hex.  Time is counted in hours.  The server keeps no record *)
(* of the tokens it has issued; `issued' holds the issued tokens that      *)
(* clients still keep.                                                     *)
(***************************************************************************)
EXTENDS Integers, Sequences, FiniteSets, TLC

VARIABLES users, nextUid, bootDone, teams, nextTid, issued, now, last, inflight

vars == <<users, nextUid, bootDone, teams, nextTid, issued, now, last, inflight>>

(***************************************************************************)
(* Bounds of the model                                                     *)
(***************************************************************************)
MaxUid == 2
MaxTid == 3
MaxTokens == 1
MaxTime == 24
TickStep == 24
MaxInflight == 2
ListTickStep == 20

(***************************************************************************)
(* Program constants                                                       *)
(***************************************************************************)
TokenTTL == 24
MinUsernameLen == 3
MaxUsernameLen == 50
MinPasswordLen == 6
MinMembers == 1
MaxMembers == 4
MaxTeamNameLen == 100
DefaultLimit == 10
MaxLimit == 100
AllocatedLimit == 100

(***************************************************************************)
(* Generic helpers                                                         *)
(***************************************************************************)
Range(s) == {s[i] : i \in DOMAIN s}

\* the subsequence of s without position i
RemoveAt(s, i) == [j \in 1..(Len(s) - 1) |-> IF j < i THEN s[j] ELSE s[j + 1]]

\* first position of s whose element satisfies P, 0 when none
\* (FindOne returns the first match in natural order)
FirstIndex(s, P(_)) ==
    IF \E i \in DOMAIN s : P(s[i])
    THEN CHOOSE i \in DOMAIN s : P(s[i]) /\ \A j \in 1..(i - 1) : ~P(s[j])
    ELSE 0

\* $set: the fields named by updateData are overwritten in doc
SetFields(doc, updateData) ==
    [f \in DOMAIN doc |-> IF f \in DOMAIN updateData THEN updateData[f] ELSE doc[f]]

(***************************************************************************)
(* Go's int on a 64-bit build: a two's complement word, kept as four       *)
(* 16-bit limbs (least significant first) so that no intermediate value    *)
(* leaves the range of the checker's integers                              *)
(***************************************************************************)
Limb == 65536
HalfLimb == 32768

\* the word of a small non-negative number
Word(n) == <<n % Limb, n \div Limb, 0, 0>>

\* w * m + a in 64 bits, for 0 <= m <= 100 and 0 <= a < 65536; the carry out
\* of the top limb is lost, as in Go's wrapping arithmetic
MulAdd(w, m, a) ==
    LET t1 == w[1] * m + a
        t2 == w[2] * m + (t1 \div Limb)
        t3 == w[3] * m + (t2 \div Limb)
        t4 == w[4] * m + (t3 \div Limb)
    IN <<t1 % Limb, t2 % Limb, t3 % Limb, t4 % Limb>>

\* w - 1 in 64 bits
Dec(w) ==
    IF w[1] > 0 THEN <<w[1] - 1, w[2], w[3], w[4]>>
    ELSE IF w[2] > 0 THEN <<Limb - 1, w[2] - 1, w[3], w[4]>>
    ELSE IF w[3] > 0 THEN <<Limb - 1, Limb - 1, w[3] - 1, w[4]>>
    ELSE IF w[4] > 0 THEN <<Limb - 1, Limb - 1, Limb - 1, w[4] - 1>>
    ELSE <<Limb - 1, Limb - 1, Limb - 1, Limb - 1>>

\* the sign bit is set
Negative(w) == w[4] >= HalfLimb

\* w > 0
Positive(w) == ~Negative(w) /\ w # Word(0)

\* 0 <= w <= n, for a small n
AtMost(w, n) == w[4] = 0 /\ w[3] = 0 /\ w[2] = 0 /\ w[1] <= n

(***************************************************************************)
(* ObjectIDs                                                               *)
(***************************************************************************)
NotHexStrings == {"", "zz"}

\* primitive.ObjectIDFromHex succeeds
ObjectIDFromHexOK(s) == s \notin NotHexStrings

\* primitive.NewObjectID for the n-th user / team document
NewUserObjectID(n) == "u" \o ToString(n)
NewTeamObjectID(n) == "t" \o ToString(n)

(***************************************************************************)
(* models.User, models.NewUser                                             *)
(***************************************************************************)
NewUser(username, password) ==
    [id |-> "", username |-> username, password |-> password, role |-> ""]

(***************************************************************************)
(* DatabaseService: users collection, one operator per database call       *)
(***************************************************************************)
\* InsertOne of a user with a fresh ObjectID
DBCreateUser(us, n, user) == Append(us, [user EXCEPT !.id = NewUserObjectID(n)])

\* index of the document FindOne{"username": username} returns, 0 = ErrNoDocuments
GetUserByUsername(us, username) ==
    FirstIndex(us, LAMBDA u : u.username = username)

\* "ok" with an index, "invalid" (bad hex) or "notfound"
GetUserByID(us, id) ==
    IF ~ObjectIDFromHexOK(id) THEN [err |-> "invalid", idx |-> 0]
    ELSE LET i == FirstIndex(us, LAMBDA u : u.id = id)
         IN IF i = 0 THEN [err |-> "notfound", idx |-> 0]
                     ELSE [err |-> "ok", idx |-> i]

\* UpdateOne on the users collection with {"$set": updateData}: a filter
\* that matches nothing changes nothing and is no error
UserUpdateOne(us, id, updateData) ==
    [i \in DOMAIN us |->
        IF us[i].id = id THEN SetFields(us[i], updateData) ELSE us[i]]

\* DatabaseService.DeleteUser: DeleteOne and the DeletedCount test
DBDeleteUser(us, id) ==
    IF ~ObjectIDFromHexOK(id) THEN [users |-> us, err |-> "invalid"]
    ELSE LET i == FirstIndex(us, LAMBDA u : u.id = id)
         IN IF i = 0 THEN [users |-> us, err |-> "notfound"]
                     ELSE [users |-> RemoveAt(us, i), err |-> "ok"]

CountUsers(us) == Len(us)

(***************************************************************************)
(* JWT: GenerateJWT and JWTAuthMiddleware                                  *)
(***************************************************************************)
NullToken ==
    [user_id |-> "", username |-> "", role |-> "", exp |-> 0,
     alg |-> "", key |-> "", wellformed |-> FALSE]

\* a GenerateJWT that stamps every token with the admin role
GenerateJWT_AdminRole(user, t) ==
    [user_id |-> user.id, username |-> user.username, role |-> "admin",
     exp |-> t + TokenTTL, alg |-> "HS256", key |-> "server",
     wellformed |-> TRUE]

GenerateJWT(user, t) ==
    [user_id |-> user.id, username |-> user.username, role |-> user.role,
     exp |-> t + TokenTTL, alg |-> "HS256", key |-> "server",
     wellformed |-> TRUE]

HMACAlgs == {"HS256", "HS384", "HS512"}

\* a parse that never looks at exp
TokenParses_NoExpiry(tok, t) ==
    /\ tok.wellformed
    /\ tok.alg \in HMACAlgs
    /\ tok.key = "server"

\* jwt.Parse with the key function of the middleware: the token parses, its
\* method is HMAC, the signature verifies under jwtSecret, and exp is in the
\* future
TokenParses(tok, t) ==
    /\ tok.wellformed
    /\ tok.alg \in HMACAlgs
    /\ tok.key = "server"
    /\ t < tok.exp

NoHeader == [scheme |-> "", token |-> NullToken]

\* a middleware that also requires the token's user to be stored, and takes
\* the role from the stored user
JWTAuthMiddleware_StoredUser(h, t) ==
    IF h.scheme # "Bearer" THEN [ok |-> FALSE, user_id |-> "", role |-> ""]
    ELSE IF ~TokenParses(h.token, t) THEN [ok |-> FALSE, user_id |-> "", role |-> ""]
    ELSE IF GetUserByID(users, h.token.user_id).err # "ok"
    THEN [ok |-> FALSE, user_id |-> "", role |-> ""]
    ELSE [ok |-> TRUE, user_id |-> h.token.user_id,
          role |-> users[GetUserByID(users, h.token.user_id).idx].role]

JWTAuthMiddleware(h, t) ==
    IF h.scheme # "Bearer" THEN [ok |-> FALSE, user_id |-> "", role |-> ""]
    ELSE IF ~TokenParses(h.token, t) THEN [ok |-> FALSE, user_id |-> "", role |-> ""]
    ELSE [ok |-> TRUE, user_id |-> h.token.user_id, role |-> h.token.role]

(***************************************************************************)
(* Requests, responses and requests in flight                              *)
(***************************************************************************)
\* a username of 51 characters
LongName == "aaaaaaaaaabbbbbbbbbbccccccccccddddddddddeeeeeeeeeef"

\* a token signed with a key that is not the server's
ForgedToken ==
    [user_id |-> "u1", username |-> "admin", role |-> "admin",
     exp |-> MaxTime + TokenTTL + 1, alg |-> "HS256", key |-> "other",
     wellformed |-> TRUE]

\* a token whose method is not HMAC, and a string that is not a JWT
NoneAlgToken == [ForgedToken EXCEPT !.alg = "none", !.key = "server"]
GarbledToken == [ForgedToken EXCEPT !.wellformed = FALSE, !.key = "server"]

Bearer(tk) == [scheme |-> "Bearer", token |-> tk]

\* Authorization headers a request can carry: none, a bearer token not made
\* by the server, or a bearer token some login has issued
Headers == {NoHeader, Bearer(ForgedToken)} \cup {Bearer(tk) : tk \in issued}

\* the same, with the other ways a header can be unusable
AllHeaders ==
    Headers \cup {[scheme |-> "Basic", token |-> NullToken],
                  Bearer(NoneAlgToken), Bearer(GarbledToken)}

NoReq == [none |-> TRUE]

\* the gin context a handler sees: the header and the values the middleware set
Ctx(h, a) == [header |-> h, user_id |-> a.user_id, role |-> a.role]

\* the context of code that serves no request
NoCtx == Ctx(NoHeader, [user_id |-> "", role |-> ""])

NoBody == [none |-> TRUE]

\* what the latest step of a handler showed: the route, the header, path id
\* and body of its request, the time the request arrived, the status code
\* of the response (0 while the request still has a database call to make),
\* the token and the id in the response, the rest of the response body, the
\* registration the handler had read when it built its update
\* (approve/reject action), and the point of the handler the step ran
\* ("begin": from the middleware to the result of the first database call;
\* otherwise the name of the later call)
Reply(route, c, pid, req, status) ==
    [route |-> route, header |-> c.header, pid |-> pid, req |-> req,
     at |-> now, status |-> status, token |-> NullToken, id |-> "",
     body |-> NoBody, was |-> NoBody, step |-> "begin"]

\* no request yet, or a step that serves no request
NoReply(route) ==
    [route |-> route, header |-> NoHeader, pid |-> "", req |-> NoReq,
     at |-> 0, status |-> 0, token |-> NullToken, id |-> "", body |-> NoBody,
     was |-> NoBody, step |-> "begin"]

\* a response given without writing to either collection and with no further
\* database call
Respond(route, c, pid, req, status) ==
    /\ last' = Reply(route, c, pid, req, status)
    /\ UNCHANGED <<users, nextUid, bootDone, teams, nextTid, issued, now, inflight>>

\* a request between two of its database calls: when it arrived, what the
\* handler does next (pc) and the local variables it carries there (loc)
Pending(route, c, pid, req, pc, loc) ==
    [route |-> route, c |-> c, pid |-> pid, req |-> req, at |-> now,
     pc |-> pc, loc |-> loc]

\* the handler got the result of its first database call and goes on to
\* another one
Await(route, c, pid, req, pc, loc) ==
    /\ Len(inflight) < MaxInflight
    /\ inflight' = Append(inflight, Pending(route, c, pid, req, pc, loc))
    /\ last' = IF route = "startup" THEN NoReply("startup")
               ELSE Reply(route, c, pid, req, 0)

\* the request in flight at k made the call `step' and goes on to pc
Continue(k, step, pc, loc) ==
    /\ inflight' = [inflight EXCEPT ![k].pc = pc, ![k].loc = loc]
    /\ last' = IF inflight[k].route = "startup" THEN NoReply("startup")
               ELSE [Reply(inflight[k].route, inflight[k].c, inflight[k].pid,
                           inflight[k].req, 0)
                        EXCEPT !.step = step, !.at = inflight[k].at]

\* the response of the request in flight at k after its call `step'
Answer(k, step, status) ==
    [Reply(inflight[k].route, inflight[k].c, inflight[k].pid,
           inflight[k].req, status)
        EXCEPT !.step = step, !.at = inflight[k].at]

\* the requests in flight that are at pc
AtPc(pc) == {k \in DOMAIN inflight : inflight[k].pc = pc}

\* AbortWithStatusJSON(401) of the middleware: the handler is not run and the
\* body is never read
Abort401(route, h) ==
    Respond(route, Ctx(h, [user_id |-> "", role |-> ""]), "", NoReq, 401)

\* a route of a group that uses JWTAuthMiddleware
Protected(route, hs, Handler(_)) ==
    \E h \in hs :
        LET a == JWTAuthMiddleware(h, now)
        IN IF a.ok THEN Handler(Ctx(h, a)) ELSE Abort401(route, h)

\* a route registered without middleware: nothing is set on the context
Public(hs, Handler(_)) ==
    \E h \in hs : Handler(Ctx(h, [user_id |-> "", role |-> ""]))

(***************************************************************************)
(* POST /auth/login                                                        *)
(***************************************************************************)
LoginReq(u, p) == [username |-> u, password |-> p]

\* outcomes of generateRandomID, six characters each drawn from A-Z0-9: a
\* sample of the 36^6 strings
RandomIDs == {"AAAAAA", "K3Z9QA"}

LoginReqs ==
    { LoginReq("admin", "igc#407@"), LoginReq("admin", "admin123"),
      LoginReq("admin", ""), LoginReq("", "secret1"),
      LoginReq("jo@x.io", "secret1"), LoginReq("jo@x.io", "JUDGE-AAAAAA"),
      LoginReq("jo@x.io", "JUDGE-K3Z9QA"), LoginReq("kim@x.io", "secret1") }

\* binding:"required" on both fields
LoginBinds(req) == req.username # "" /\ req.password # ""

LoginOutcome(us, req, t) ==
    IF ~LoginBinds(req) THEN [status |-> 400, token |-> NullToken]
    ELSE LET i == GetUserByUsername(us, req.username)
         IN IF i = 0 THEN [status |-> 401, token |-> NullToken]
            ELSE IF us[i].password # req.password
                 THEN [status |-> 401, token |-> NullToken]
                 ELSE [status |-> 200, token |-> GenerateJWT(us[i], t)]

\* the tokens clients hold after a login returned tk: clients keep at most
\* MaxTokens of the tokens they were given and forget any one when given more
Holding(held, tk) ==
    IF tk \in held THEN {held}
    ELSE IF Cardinality(held) < MaxTokens THEN {held \cup {tk}}
    ELSE {(held \ {old}) \cup {tk} : old \in held}

Login(c, reqs) ==
    \E req \in reqs :
        LET o == LoginOutcome(users, req, now)
        IN /\ IF o.status = 200
              THEN issued' \in Holding(issued, o.token)
              ELSE issued' = issued
           /\ last' = [Reply("Login", c, "", req, o.status)
                           EXCEPT !.token = o.token]
           /\ UNCHANGED <<users, nextUid, bootDone, teams, nextTid, now, inflight>>

(***************************************************************************)
(* POST /users                                                             *)
(***************************************************************************)
CreateUserReq(u, p, r, n, o) ==
    [username |-> u, password |-> p, role |-> r, name |-> n, organization |-> o]

CreateUserReqs ==
    { CreateUserReq("admin", "secret1", "admin", "", ""),
      CreateUserReq("jo@x.io", "secret1", "judge", "Jo", "PCCOE"),
      CreateUserReq("jo@x.io", "secret1", "judge", "", "PCCOE"),
      CreateUserReq("admin", "short", "admin", "", ""),
      CreateUserReq("ab", "secret1", "admin", "", ""),
      CreateUserReq(LongName, "secret1", "admin", "", ""),
      CreateUserReq("jo@x.io", "secret1", "root", "Jo", "PCCOE") }

\* binding tags of UnifiedCreateUserRequest
CreateUserBinds(req) ==
    /\ Len(req.username) >= MinUsernameLen
    /\ Len(req.username) <= MaxUsernameLen
    /\ Len(req.password) >= MinPasswordLen
    /\ req.role \in {"admin", "judge"}

\* a pre-check that never finds the username
UsernameTaken_Never(us, username) == FALSE

\* the pre-check made before an insert: a user with this username is stored
UsernameTaken(us, username) == GetUserByUsername(us, username) # 0

\* the creations that passed their pre-check and have not inserted yet
PendingInserts == Cardinality(AtPc("InsertUser"))

\* the handler goes on to h.DB.CreateUser(user)
AwaitInsertUser(route, c, req, user) ==
    /\ nextUid + PendingInserts <= MaxUid
    /\ Await(route, c, "", req, "InsertUser", [user |-> user])
    /\ UNCHANGED <<users, nextUid, bootDone, teams, nextTid, issued, now>>

\* a CreateUser that replaces the stored user of that name instead of refusing
CreateUser_Overwrite(c, reqs) ==
    \E req \in reqs :
        IF ~CreateUserBinds(req) THEN Respond("CreateUser", c, "", req, 400)
        ELSE IF UsernameTaken(users, req.username)
        THEN /\ users' = [users EXCEPT
                            ![GetUserByUsername(users, req.username)].password =
                                req.password \o "!"]
             /\ last' = Reply("CreateUser", c, "", req, 201)
             /\ UNCHANGED <<nextUid, bootDone, teams, nextTid, issued, now, inflight>>
        ELSE IF req.role = "judge" /\ (req.name = "" \/ req.organization = "")
        THEN Respond("CreateUser", c, "", req, 400)
        ELSE AwaitInsertUser("CreateUser", c, req,
                 [NewUser(req.username, req.password) EXCEPT !.role = req.role])

\* CreateUser up to the result of GetUserByUsername and the checks that
\* follow it
CreateUser(c, reqs) ==
    \E req \in reqs :
        IF ~CreateUserBinds(req) THEN Respond("CreateUser", c, "", req, 400)
        ELSE IF UsernameTaken(users, req.username)
        THEN Respond("CreateUser", c, "", req, 409)
        ELSE IF req.role = "judge" /\ (req.name = "" \/ req.organization = "")
        THEN Respond("CreateUser", c, "", req, 400)
        ELSE AwaitInsertUser("CreateUser", c, req,
                 [NewUser(req.username, req.password) EXCEPT !.role = req.role])

\* the reply of a creation whose insert succeeded
InsertReply(k, id) ==
    IF inflight[k].route = "startup" THEN NoReply("startup")
    ELSE [Answer(k, "InsertUser", 201) EXCEPT !.id = id]

\* an insert that looks the username up again and refuses when it is stored
InsertUserEnd_Recheck ==
    \E k \in AtPc("InsertUser") :
        /\ IF UsernameTaken(users, inflight[k].loc.user.username)
           THEN /\ last' = Answer(k, "InsertUser", 409)
                /\ UNCHANGED <<users, nextUid>>
           ELSE /\ users' = DBCreateUser(users, nextUid, inflight[k].loc.user)
                /\ nextUid' = nextUid + 1
                /\ last' = InsertReply(k, NewUserObjectID(nextUid))
        /\ inflight' = RemoveAt(inflight, k)
        /\ UNCHANGED <<bootDone, teams, nextTid, issued, now>>

\* h.DB.CreateUser / db.CreateUser of a creation in flight: InsertOne, with
\* nothing looked up again, and the 201 response
InsertUserEnd ==
    \E k \in AtPc("InsertUser") :
        /\ users' = DBCreateUser(users, nextUid, inflight[k].loc.user)
        /\ nextUid' = nextUid + 1
        /\ last' = InsertReply(k, NewUserObjectID(nextUid))
        /\ inflight' = RemoveAt(inflight, k)
        /\ UNCHANGED <<bootDone, teams, nextTid, issued, now>>

(***************************************************************************)
(* GET /users/:id                                                          *)
(***************************************************************************)
PathUserIds == {NewUserObjectID(n) : n \in 1..MaxUid} \cup {"dead", "zz"}

GetUser(c, pids) ==
    \E pid \in pids :
        LET r == GetUserByID(users, pid)
        IN Respond("GetUser", c, pid, NoReq,
                   IF r.err = "ok" THEN 200
                   ELSE IF r.err = "notfound" THEN 404 ELSE 400)

(***************************************************************************)
(* PUT /users/:id                                                          *)
(***************************************************************************)
UpdateUserReq(u, p) == [username |-> u, password |-> p]

UpdateUserReqs ==
    { UpdateUserReq("jo@x.io", ""), UpdateUserReq("admin", ""),
      UpdateUserReq("", "secret1"), UpdateUserReq("", ""),
      UpdateUserReq("ab", "") }

\* the (path id, body) pairs tried: every body on a generated id, one body on
\* an id that was never generated and on a string that is not hex
UpdateUserCalls ==
    ({NewUserObjectID(n) : n \in 1..MaxUid} \X UpdateUserReqs)
    \cup ({"dead", "zz"} \X {UpdateUserReq("", "secret1")})

\* binding tags of UpdateUserRequest (omitempty: an empty field is skipped)
UpdateUserBinds(req) ==
    /\ req.username # "" =>
           /\ Len(req.username) >= MinUsernameLen
           /\ Len(req.username) <= MaxUsernameLen
    /\ req.password # "" => Len(req.password) >= MinPasswordLen

\* the updateData map of UpdateUser: the username when the request renames
\* the user, the password when the request carries one
UserUpdateData(req, rename) ==
    [f \in (IF rename THEN {"username"} ELSE {})
           \cup (IF req.password # "" THEN {"password"} ELSE {}) |->
        IF f = "username" THEN req.username ELSE req.password]

\* UpdateUser up to the result of GetUserByID: a request that renames the
\* user goes on to look the new name up, any other to the update
UpdateUser(c, calls) ==
    \E call \in calls :
        LET pid == call[1]
            req == call[2]
            r == GetUserByID(users, pid)
        IN IF ~UpdateUserBinds(req) THEN Respond("UpdateUser", c, pid, req, 400)
           ELSE IF r.err = "notfound" THEN Respond("UpdateUser", c, pid, req, 404)
           ELSE IF r.err = "invalid" THEN Respond("UpdateUser", c, pid, req, 400)
           ELSE IF req.username # "" /\ req.username # users[r.idx].username
           THEN /\ Await("UpdateUser", c, pid, req, "UpdateUserLookup", NoBody)
                /\ UNCHANGED <<users, nextUid, bootDone, teams, nextTid, issued, now>>
           ELSE IF DOMAIN UserUpdateData(req, FALSE) = {}
           THEN Respond("UpdateUser", c, pid, req, 400)
           ELSE /\ Await("UpdateUser", c, pid, req, "UserUpdateOne",
                         [data |-> UserUpdateData(req, FALSE)])
                /\ UNCHANGED <<users, nextUid, bootDone, teams, nextTid, issued, now>>

\* GetUserByUsername of a renaming request: 409 when the name is stored,
\* otherwise on to the update
UpdateUserLookup ==
    \E k \in AtPc("UpdateUserLookup") :
        /\ IF UsernameTaken(users, inflight[k].req.username)
           THEN /\ last' = Answer(k, "UpdateUserLookup", 409)
                /\ inflight' = RemoveAt(inflight, k)
           ELSE Continue(k, "UpdateUserLookup", "UserUpdateOne",
                         [data |-> UserUpdateData(inflight[k].req, TRUE)])
        /\ UNCHANGED <<users, nextUid, bootDone, teams, nextTid, issued, now>>

\* DatabaseService.UpdateUser, first call: UpdateOne by id
UpdateUserWrite ==
    \E k \in AtPc("UserUpdateOne") :
        /\ users' = UserUpdateOne(users, inflight[k].pid, inflight[k].loc.data)
        /\ Continue(k, "UserUpdateOne", "UserReadBack", NoBody)
        /\ UNCHANGED <<nextUid, bootDone, teams, nextTid, issued, now>>

\* DatabaseService.UpdateUser, second call: GetUserByID of the updated user,
\* whose error is the error of the update, and the response of the handler:
\* 200 with the id of the user, or 500 with an error and no id
UpdateUserReadBack ==
    \E k \in AtPc("UserReadBack") :
        /\ last' = IF GetUserByID(users, inflight[k].pid).err = "ok"
                   THEN [Answer(k, "UserReadBack", 200)
                            EXCEPT !.id = inflight[k].pid]
                   ELSE Answer(k, "UserReadBack", 500)
        /\ inflight' = RemoveAt(inflight, k)
        /\ UNCHANGED <<users, nextUid, bootDone, teams, nextTid, issued, now>>

(***************************************************************************)
(* DELETE /users/:id                                                       *)
(***************************************************************************)
DeleteUser(c, pids) ==
    \E pid \in pids :
        LET u == DBDeleteUser(users, pid)
        IN /\ users' = u.users
           /\ last' = Reply("DeleteUser", c, pid, NoReq,
                            IF u.err = "ok" THEN 200
                            ELSE IF u.err = "notfound" THEN 404 ELSE 400)
           /\ UNCHANGED <<nextUid, bootDone, teams, nextTid, issued, now, inflight>>

(***************************************************************************)
(* POST /api/v1/create-default-admin (registered on the router itself)     *)
(***************************************************************************)
\* CreateDefaultAdmin up to the result of GetUserByUsername("admin")
CreateDefaultAdmin(c) ==
    IF UsernameTaken(users, "admin")
    THEN Respond("CreateDefaultAdmin", c, "", NoReq, 409)
    ELSE AwaitInsertUser("CreateDefaultAdmin", c, NoReq,
             [NewUser("admin", "igc#407@") EXCEPT !.role = "admin"])

(***************************************************************************)
(* CreateJudge (a handler no route is registered for)                      *)
(***************************************************************************)
CreateJudgeReq(n, e, o) == [name |-> n, email |-> e, organization |-> o]

CreateJudgeReqs ==
    { CreateJudgeReq("Jo Judge", "jo@x.io", "PCCOE"),
      CreateJudgeReq("Jo", "jo@x.io", "PCCOE"),
      CreateJudgeReq("Jo Judge", "admin", "PCCOE") }

\* the strings of the model the email binding rule accepts
EmailStrings == {"jo@x.io", "kim@x.io"}

\* binding tags of CreateJudgeRequest
CreateJudgeBinds(req) ==
    /\ Len(req.name) >= 3 /\ Len(req.name) <= 100
    /\ req.email \in EmailStrings
    /\ Len(req.organization) >= 2 /\ Len(req.organization) <= 100

\* CreateJudge up to the result of GetUserByUsername(email) and the choice of
\* the password
CreateJudge(c, reqs) ==
    \E req \in reqs, rid \in RandomIDs :
        IF ~CreateJudgeBinds(req) THEN Respond("CreateJudge", c, "", req, 400)
        ELSE IF UsernameTaken(users, req.email)
        THEN Respond("CreateJudge", c, "", req, 409)
        ELSE AwaitInsertUser("CreateJudge", c, req,
                 [NewUser(req.email, "JUDGE-" \o rid) EXCEPT !.role = "judge"])

(***************************************************************************)
(* Startup: go createDefaultAdminUser(dbService), up to the result of      *)
(* CountUsers; the insert that follows a count of 0 is InsertUserEnd       *)
(***************************************************************************)
createDefaultAdminUser ==
    /\ ~bootDone
    /\ bootDone' = TRUE
    /\ IF CountUsers(users) = 0
       THEN /\ nextUid + PendingInserts <= MaxUid
            /\ Await("startup", NoCtx, "", NoReq, "InsertUser",
                     [user |-> NewUser("admin", "admin123")])
       ELSE /\ last' = NoReply("startup")
            /\ UNCHANGED inflight
    /\ UNCHANGED <<users, nextUid, teams, nextTid, issued, now>>

(***************************************************************************)
(* models.TeamRegistration                                                 *)
(***************************************************************************)
\* a *time.Time that is nil
NilTime == -1

\* constructor defaults; the handler and DatabaseService fill in the rest
NewTeamRegistration(t) ==
    [id |-> "", teamName |-> "", institution |-> <<>>, track |-> "",
     members |-> <<>>, registrationStatus |-> "pending",
     registrationNumber |-> "", teamId |-> "", submittedAt |-> t,
     approvedAt |-> NilTime, rejectedAt |-> NilTime,
     rejectionReason |-> "", actionedBy |-> "", allocatedJudgeId |-> ""]

\* unicode.IsSpace: the runes strings.TrimSpace strips
Whitespace ==
    {"\t", "\n", "U+000B", "\f", "\r", " ", "U+0085", "U+00A0", "U+1680",
     "U+2000", "U+2001", "U+2002", "U+2003", "U+2004", "U+2005", "U+2006",
     "U+2007", "U+2008", "U+2009", "U+200A", "U+2028", "U+2029", "U+202F",
     "U+205F", "U+3000"}

RECURSIVE TrimLeft(_)
TrimLeft(s) ==
    IF s # <<>> /\ Head(s) \in Whitespace THEN TrimLeft(Tail(s)) ELSE s

RECURSIVE TrimRight(_)
TrimRight(s) ==
    IF s # <<>> /\ s[Len(s)] \in Whitespace
    THEN TrimRight(SubSeq(s, 1, Len(s) - 1)) ELSE s

\* strings.TrimSpace on a sequence of runes
TrimSpace(s) == TrimRight(TrimLeft(s))

\* a count of the entries of the members array, blank or not
ValidMembers_NoTrim(members) == Len(members)

\* the validMembers loop of CreateTeamRegistration
RECURSIVE ValidMembers(_)
ValidMembers(members) ==
    IF members = <<>> THEN 0
    ELSE (IF Len(TrimSpace(Head(members))) > 0 THEN 1 ELSE 0)
         + ValidMembers(Tail(members))

(***************************************************************************)
(* DatabaseService: teamregistrations collection, one operator per         *)
(* database call                                                           *)
(***************************************************************************)
\* fmt.Sprintf("%03d", n)
Sprintf03d(n) ==
    IF n < 10 THEN "00" \o ToString(n)
    ELSE IF n < 100 THEN "0" \o ToString(n)
    ELSE ToString(n)

\* Decode into TeamRegistration: allocatedJudgeId is a primitive.ObjectID, so
\* a stored string decodes only when it is the hex form of an ObjectID
Decodes(team) ==
    team.allocatedJudgeId = "" \/ ObjectIDFromHexOK(team.allocatedJudgeId)

\* CountDocuments(ctx, bson.M{})
CountDocuments(ts) == Len(ts)

\* what DatabaseService.CreateTeamRegistration makes of the registration
\* between its two calls: a fresh ObjectID, the numbers formatted from the
\* count just read, and the time
Numbered(team, n, count, t) ==
    [team EXCEPT
        !.id = NewTeamObjectID(n),
        !.registrationNumber = "PCCOEIGC" \o Sprintf03d(count + 1),
        !.teamId = "IGC" \o Sprintf03d(count + 1),
        !.submittedAt = t]

\* InsertOne
InsertTeamRegistration(ts, team) == Append(ts, team)

\* "ok" with an index, "invalid" (bad hex), "notfound", or "decode"
GetTeamRegistrationByID(ts, id) ==
    IF ~ObjectIDFromHexOK(id) THEN [err |-> "invalid", idx |-> 0]
    ELSE LET i == FirstIndex(ts, LAMBDA tm : tm.id = id)
         IN IF i = 0 THEN [err |-> "notfound", idx |-> 0]
            ELSE IF ~Decodes(ts[i]) THEN [err |-> "decode", idx |-> i]
            ELSE [err |-> "ok", idx |-> i]

GetTeamRegistrationByTeamName(ts, name) ==
    LET i == FirstIndex(ts, LAMBDA tm : tm.teamName = name)
    IN IF i = 0 THEN [err |-> "notfound", idx |-> 0]
       ELSE IF ~Decodes(ts[i]) THEN [err |-> "decode", idx |-> i]
       ELSE [err |-> "ok", idx |-> i]

GetTeamRegistrationByRegistrationNumber(ts, reg) ==
    LET i == FirstIndex(ts, LAMBDA x : x.registrationNumber = reg)
    IN IF i = 0 THEN [err |-> "notfound", idx |-> 0]
       ELSE IF ~Decodes(ts[i]) THEN [err |-> "decode", idx |-> 0]
       ELSE [err |-> "ok", idx |-> i]

\* UpdateOne with {"$set": updateData}: the fields named by updateData are
\* overwritten in the document with this id, if there is one; a filter that
\* matches nothing is no error
UpdateOne(ts, id, updateData) ==
    [i \in DOMAIN ts |->
        IF ts[i].id = id THEN SetFields(ts[i], updateData) ELSE ts[i]]

\* an approval that records no time
ApproveData_NoTime(actionedBy, t) ==
    [registrationStatus |-> "approved", actionedBy |-> actionedBy]

\* the updateData of DatabaseService.ApproveTeamRegistration, after
\* team.Approve at time t
ApproveData(actionedBy, t) ==
    [registrationStatus |-> "approved", approvedAt |-> t,
     actionedBy |-> actionedBy]

\* a rejection that keeps no reason
RejectData_NoReason(reason, actionedBy, t) ==
    [registrationStatus |-> "rejected", rejectedAt |-> t,
     actionedBy |-> actionedBy]

\* the updateData of DatabaseService.RejectTeamRegistration, after
\* team.Reject at time t
RejectData(reason, actionedBy, t) ==
    [registrationStatus |-> "rejected", rejectionReason |-> reason,
     rejectedAt |-> t, actionedBy |-> actionedBy]

\* DatabaseService.DeleteTeamRegistration
DBDeleteTeamRegistration(ts, id) ==
    IF ~ObjectIDFromHexOK(id) THEN [teams |-> ts, err |-> "invalid"]
    ELSE LET i == FirstIndex(ts, LAMBDA tm : tm.id = id)
         IN IF i = 0 THEN [teams |-> ts, err |-> "notfound"]
                     ELSE [teams |-> RemoveAt(ts, i), err |-> "ok"]

(***************************************************************************)
(* POST /team-registrations                                                *)
(***************************************************************************)
NmA == <<"A">>
NmB == <<" ", "B">>
NmC == <<"C", " ">>
NmD == <<"D">>
NmE == <<"E">>
NmBlank == <<" ", "\t">>
NmEmpty == <<>>
\* a line feed; a no-break space and an ideographic space; a zero width
\* space, which is not white space, between two spaces
NmNewline == <<"\n">>
NmNoBreak == <<"U+00A0", "U+3000">>
NmZeroWidth == <<" ", "U+200B", " ">>

InstPCCOE == <<"P", "C", "C", "O", "E">>
InstMIT == <<"M", "I", "T">>

\* a request body: the team name, the members array (membersNil when the
\* field is absent or null), the institution and the track, and whether the
\* remaining required fields (leader, program, location, mentor, topic,
\* presentation link) pass their binding rules
CreateTeamReq(name, nil, members, others) ==
    [teamName |-> name, membersNil |-> nil, members |-> members,
     institution |-> InstPCCOE, track |-> "Air Quality",
     othersBind |-> others]

\* the same body from another institution, on another track
From(req, institution, track) ==
    [req EXCEPT !.institution = institution, !.track = track]

CreateTeamReqs ==
    { CreateTeamReq("Alpha", FALSE, <<NmA>>, TRUE),
      CreateTeamReq("Beta", FALSE, <<NmA, NmB, NmC, NmD>>, TRUE),
      CreateTeamReq("Beta", FALSE, <<NmA, NmB, NmC, NmD, NmE>>, TRUE),
      CreateTeamReq("Beta", FALSE, <<NmA, NmB, NmC, NmD, NmBlank>>, TRUE),
      CreateTeamReq("Alpha", FALSE, <<>>, TRUE),
      CreateTeamReq("Beta", TRUE, <<>>, TRUE),
      CreateTeamReq("Beta", FALSE, <<NmBlank, NmEmpty>>, TRUE),
      CreateTeamReq("Beta", FALSE, <<NmNewline>>, TRUE),
      CreateTeamReq("Beta", FALSE, <<NmNoBreak, NmNewline>>, TRUE),
      CreateTeamReq("Gamma", FALSE, <<NmZeroWidth, NmNoBreak>>, TRUE),
      CreateTeamReq("", FALSE, <<NmA>>, TRUE),
      CreateTeamReq("Alpha", FALSE, <<NmA>>, FALSE),
      From(CreateTeamReq("Alpha", FALSE, <<NmA>>, TRUE), <<>>, "Air Quality"),
      From(CreateTeamReq("Alpha", FALSE, <<NmA>>, TRUE), InstMIT, "") }

\* binding tags of CreateTeamRegistrationRequest
CreateTeamBinds(req) ==
    /\ req.teamName # ""
    /\ Len(req.teamName) <= MaxTeamNameLen
    /\ req.institution # <<>>
    /\ Len(req.institution) <= 200
    /\ req.track # ""
    /\ req.othersBind

\* the pre-check of the team name: a registration with this name was found
\* (a lookup that fails to decode returns no registration)
TeamNameTaken(ts, name) == GetTeamRegistrationByTeamName(ts, name).err = "ok"

\* the registration the handler builds from the request
TeamOf(req, t) ==
    [NewTeamRegistration(t) EXCEPT
        !.teamName = req.teamName,
        !.institution = req.institution,
        !.track = req.track,
        !.members = req.members]

\* CreateTeamRegistration up to the result of GetTeamRegistrationByTeamName
CreateTeamRegistration(c, reqs) ==
    \E req \in reqs :
        IF ~CreateTeamBinds(req)
        THEN Respond("CreateTeamRegistration", c, "", req, 400)
        ELSE IF ValidMembers(req.members) < MinMembers
                \/ ValidMembers(req.members) > MaxMembers
        THEN Respond("CreateTeamRegistration", c, "", req, 400)
        ELSE IF TeamNameTaken(teams, req.teamName)
        THEN Respond("CreateTeamRegistration", c, "", req, 409)
        ELSE /\ nextTid + Cardinality(AtPc("CreateTeamCount")) <= MaxTid
             /\ Await("CreateTeamRegistration", c, "", req, "CreateTeamCount",
                      [team |-> TeamOf(req, now)])
             /\ UNCHANGED <<users, nextUid, bootDone, teams, nextTid, issued, now>>

\* DatabaseService.CreateTeamRegistration, first call: CountDocuments, and
\* the numbering that follows it
CreateTeamRegistrationCount ==
    \E k \in AtPc("CreateTeamCount") :
        /\ Continue(k, "CreateTeamCount", "CreateTeamInsert",
                    [count |-> CountDocuments(teams),
                     team |-> Numbered(inflight[k].loc.team, nextTid,
                                       CountDocuments(teams), now)])
        /\ nextTid' = nextTid + 1
        /\ UNCHANGED <<users, nextUid, bootDone, teams, issued, now>>

\* an insert that numbers the registration from the count at insert time
CreateTeamRegistrationEnd_CountAtInsert ==
    \E k \in AtPc("CreateTeamInsert") :
        /\ teams' = InsertTeamRegistration(teams,
                        [inflight[k].loc.team EXCEPT
                            !.registrationNumber =
                                "PCCOEIGC" \o Sprintf03d(CountDocuments(teams) + 1),
                            !.teamId =
                                "IGC" \o Sprintf03d(CountDocuments(teams) + 1)])
        /\ last' = [Answer(k, "CreateTeamInsert", 201)
                        EXCEPT !.id = inflight[k].loc.team.id,
                               !.body = teams'[Len(teams')]]
        /\ inflight' = RemoveAt(inflight, k)
        /\ UNCHANGED <<users, nextUid, bootDone, nextTid, issued, now>>

\* DatabaseService.CreateTeamRegistration, second call: InsertOne, and the
\* 201 response with the registration as inserted
CreateTeamRegistrationEnd ==
    \E k \in AtPc("CreateTeamInsert") :
        /\ teams' = InsertTeamRegistration(teams, inflight[k].loc.team)
        /\ last' = [Answer(k, "CreateTeamInsert", 201)
                        EXCEPT !.id = inflight[k].loc.team.id,
                               !.body = inflight[k].loc.team]
        /\ inflight' = RemoveAt(inflight, k)
        /\ UNCHANGED <<users, nextUid, bootDone, nextTid, issued, now>>

(***************************************************************************)
(* GET /team-registrations/:id                                             *)
(***************************************************************************)
PathTeamIds == {NewTeamObjectID(n) : n \in 1..MaxTid} \cup {"dead", "zz"}

GetTeamRegistration(c, pids) ==
    \E pid \in pids :
        LET r == GetTeamRegistrationByID(teams, pid)
        IN /\ last' = [Reply("GetTeamRegistration", c, pid, NoReq,
                             IF r.err = "ok" THEN 200
                             ELSE IF r.err = "notfound" THEN 404 ELSE 400)
                          EXCEPT !.body = IF r.err = "ok" THEN teams[r.idx]
                                          ELSE NoBody]
           /\ UNCHANGED <<users, nextUid, bootDone, teams, nextTid, issued,
                          now, inflight>>

(***************************************************************************)
(* PUT /team-registrations/:id                                             *)
(***************************************************************************)
\* a request body: the team name ("" when absent), the members array
\* (membersNil when absent), the institution (<<>> when absent), the track,
\* a *models.Track (trackNil when the body has no "track" key), and the
\* other fields of the request, which are all absent ("none"), some present
\* and valid ("valid"), or some present and against a binding rule
\* ("invalid")
UpdateTeamReq(name, nil, members, others) ==
    [teamName |-> name, membersNil |-> nil, members |-> members,
     institution |-> <<>>, trackNil |-> TRUE, track |-> "",
     others |-> others, registrationStatus |-> ""]

\* the same body with a "track" key of this value, the empty string included
WithTrack(req, track) == [req EXCEPT !.trackNil = FALSE, !.track = track]

\* a body that also carries a "registrationStatus" key;
\* UpdateTeamRegistrationRequest has no field of that name
UpdateTeamReqWithStatus(others, st) ==
    [UpdateTeamReq("", TRUE, <<>>, others) EXCEPT !.registrationStatus = st]

\* binding tags of UpdateTeamRegistrationRequest
UpdateTeamBinds(req) ==
    /\ Len(req.teamName) <= MaxTeamNameLen
    /\ Len(req.institution) <= 200
    /\ req.others # "invalid"

\* the keys of the updateData map the handler builds; "leaderName" stands
\* for the fields of the request the model does not keep in the document
UpdateKeys(req) ==
    (IF req.teamName # "" THEN {"teamName"} ELSE {})
    \cup (IF req.institution # <<>> THEN {"institution"} ELSE {})
    \cup (IF ~req.membersNil THEN {"members"} ELSE {})
    \cup (IF ~req.trackNil THEN {"track"} ELSE {})
    \cup (IF req.others = "valid" THEN {"leaderName"} ELSE {})

\* an updateData map that also copies the body's registrationStatus
UpdateData_WithStatus(req) ==
    [k \in UpdateKeys(req)
           \cup (IF req.registrationStatus # ""
                 THEN {"registrationStatus"} ELSE {}) |->
        IF k = "registrationStatus" THEN req.registrationStatus
        ELSE IF k = "leaderName" THEN "x" ELSE req[k]]

\* the updateData map of UpdateTeamRegistration
UpdateData(req) ==
    [k \in UpdateKeys(req) |-> IF k = "leaderName" THEN "x" ELSE req[k]]

\* the handler goes on to h.DB.UpdateTeamRegistration(id, updateData),
\* whose first call is UpdateOne
AwaitUpdateOne(route, c, pid, req, updateData, was) ==
    /\ Await(route, c, pid, req, "TeamUpdateOne",
             [data |-> updateData, was |-> was])
    /\ UNCHANGED <<users, nextUid, bootDone, teams, nextTid, issued, now>>

\* UpdateTeamRegistration up to the result of GetTeamRegistrationByID and
\* the building of updateData
UpdateTeamRegistration(c, calls) ==
    \E call \in calls :
        LET pid == call[1]
            req == call[2]
            r == GetTeamRegistrationByID(teams, pid)
        IN IF ~UpdateTeamBinds(req)
           THEN Respond("UpdateTeamRegistration", c, pid, req, 400)
           ELSE IF r.err = "notfound"
           THEN Respond("UpdateTeamRegistration", c, pid, req, 404)
           ELSE IF r.err # "ok"
           THEN Respond("UpdateTeamRegistration", c, pid, req, 400)
           ELSE IF DOMAIN UpdateData(req) = {}
           THEN Respond("UpdateTeamRegistration", c, pid, req, 400)
           ELSE AwaitUpdateOne("UpdateTeamRegistration", c, pid, req,
                               UpdateData(req), NoBody)

\* DatabaseService.UpdateTeamRegistration, first call, for a handler that
\* read the registration before: UpdateOne by id
UpdateTeamWrite ==
    \E k \in AtPc("TeamUpdateOne") :
        /\ teams' = UpdateOne(teams, inflight[k].pid, inflight[k].loc.data)
        /\ Continue(k, "TeamUpdateOne", "TeamReadBack", inflight[k].loc)
        /\ UNCHANGED <<users, nextUid, bootDone, nextTid, issued, now>>

\* the status a handler gives when h.DB.UpdateTeamRegistration (or Approve,
\* Reject) returned this error
UpdateErrorStatus(route, err) ==
    IF err = "ok" THEN 200
    ELSE IF route = "ApproveOrRejectTeamRegistration" /\ err = "notfound"
    THEN 404
    ELSE 500

\* DatabaseService.UpdateTeamRegistration, second call:
\* GetTeamRegistrationByID of the updated registration, whose error is the
\* error of the update, and the response of the handler
UpdateTeamReadBack ==
    \E k \in AtPc("TeamReadBack") :
        LET r == GetTeamRegistrationByID(teams, inflight[k].pid)
        IN /\ last' = [Answer(k, "TeamReadBack",
                              UpdateErrorStatus(inflight[k].route, r.err))
                          EXCEPT !.was = inflight[k].loc.was,
                                 !.body = IF r.err = "ok" THEN teams[r.idx]
                                          ELSE NoBody]
           /\ inflight' = RemoveAt(inflight, k)
           /\ UNCHANGED <<users, nextUid, bootDone, teams, nextTid, issued, now>>

(***************************************************************************)
(* PUT /team-registrations/:id/action                                      *)
(***************************************************************************)
ActionReq(a, r, by) == [action |-> a, reason |-> r, actionedBy |-> by]

ActionReqs ==
    { ActionReq("approve", "", "adm"), ActionReq("reject", "late", "adm"),
      ActionReq("reject", "", "adm"), ActionReq("hold", "", "adm"),
      ActionReq("approve", "", "") }

ActionCalls ==
    ({NewTeamObjectID(n) : n \in 1..MaxTid} \X ActionReqs)
    \cup ({"dead", "zz"} \X {ActionReq("approve", "", "adm")})

\* binding tags of ApproveRejectRequest
ActionBinds(req) ==
    /\ req.action \in {"approve", "reject"}
    /\ req.actionedBy # ""

\* ApproveOrRejectTeamRegistration up to the result of the
\* GetTeamRegistrationByID of Approve/RejectTeamRegistration and the
\* building of updateData
ApproveOrRejectTeamRegistration(c, calls) ==
    \E call \in calls :
        LET pid == call[1]
            req == call[2]
            r == GetTeamRegistrationByID(teams, pid)
        IN IF ~ActionBinds(req)
           THEN Respond("ApproveOrRejectTeamRegistration", c, pid, req, 400)
           ELSE IF req.action = "reject" /\ req.reason = ""
           THEN Respond("ApproveOrRejectTeamRegistration", c, pid, req, 400)
           ELSE IF r.err # "ok"
           THEN Respond("ApproveOrRejectTeamRegistration", c, pid, req,
                        UpdateErrorStatus("ApproveOrRejectTeamRegistration",
                                          r.err))
           ELSE AwaitUpdateOne("ApproveOrRejectTeamRegistration", c, pid, req,
                    IF req.action = "approve"
                    THEN ApproveData(req.actionedBy, now)
                    ELSE RejectData(req.reason, req.actionedBy, now),
                    teams[r.idx])

(***************************************************************************)
(* DELETE /team-registrations/:id                                          *)
(***************************************************************************)
DeleteTeamRegistration(c, pids) ==
    \E pid \in pids :
        LET u == DBDeleteTeamRegistration(teams, pid)
        IN /\ teams' = u.teams
           /\ last' = Reply("DeleteTeamRegistration", c, pid, NoReq,
                            IF u.err = "ok" THEN 200
                            ELSE IF u.err = "notfound" THEN 404 ELSE 400)
           /\ UNCHANGED <<users, nextUid, bootDone, nextTid, issued, now, inflight>>

(***************************************************************************)
(* PUT /team-registrations/:id/allocate                                    *)
(***************************************************************************)
AllocateReq(j) == [judgeId |-> j]

\* bodies naming no judge, or any user of the collection
AllocateCalls ==
    ({NewTeamObjectID(n) : n \in 1..MaxTid}
        \X {AllocateReq(j) : j \in {""} \cup {u.id : u \in Range(users)}})
    \cup ({"dead"} \X {AllocateReq("")})

\* binding:"required" on judgeId
AllocateBinds(req) == req.judgeId # ""

\* h.DB.UpdateTeamRegistration(id, updateData) of a handler that read
\* nothing before: the hex check, which fails with no call made, or the
\* first call, UpdateOne
UpdateNow(route, c, pid, req, updateData) ==
    IF ~ObjectIDFromHexOK(pid) THEN Respond(route, c, pid, req, 500)
    ELSE /\ teams' = UpdateOne(teams, pid, updateData)
         /\ Await(route, c, pid, req, "TeamReadBack",
                  [data |-> updateData, was |-> NoBody])
         /\ UNCHANGED <<users, nextUid, bootDone, nextTid, issued, now>>

\* an allocate handler that also puts the registration back under review
AllocateTeamToJudge_Reopen(c, calls) ==
    \E call \in calls :
        LET pid == call[1]
            req == call[2]
        IN IF ~AllocateBinds(req)
           THEN Respond("AllocateTeamToJudge", c, pid, req, 400)
           ELSE IF c.role # "admin"
           THEN Respond("AllocateTeamToJudge", c, pid, req, 403)
           ELSE UpdateNow("AllocateTeamToJudge", c, pid, req,
                          [allocatedJudgeId |-> req.judgeId,
                           registrationStatus |-> "pending"])

\* an allocate handler that never looks at the role
AllocateTeamToJudge_NoRoleCheck(c, calls) ==
    \E call \in calls :
        LET pid == call[1]
            req == call[2]
        IN IF ~AllocateBinds(req)
           THEN Respond("AllocateTeamToJudge", c, pid, req, 400)
           ELSE UpdateNow("AllocateTeamToJudge", c, pid, req,
                          [allocatedJudgeId |-> req.judgeId])

\* AllocateTeamToJudge up to the result of the UpdateOne
AllocateTeamToJudge(c, calls) ==
    \E call \in calls :
        LET pid == call[1]
            req == call[2]
        IN IF ~AllocateBinds(req)
           THEN Respond("AllocateTeamToJudge", c, pid, req, 400)
           ELSE IF c.role # "admin"
           THEN Respond("AllocateTeamToJudge", c, pid, req, 403)
           ELSE UpdateNow("AllocateTeamToJudge", c, pid, req,
                          [allocatedJudgeId |-> req.judgeId])

(***************************************************************************)
(* PUT /team-registrations/:id/evaluate                                    *)
(***************************************************************************)
EvaluateReq(d, r) == [decision |-> d, reason |-> r]

EvaluateReqs ==
    { EvaluateReq("approve", ""), EvaluateReq("reject", "weak"),
      EvaluateReq("", "") }

EvaluateCalls ==
    ({NewTeamObjectID(n) : n \in 1..MaxTid} \X EvaluateReqs)
    \cup ({"dead"} \X {EvaluateReq("approve", "")})

\* binding tags of the request: decision is required, one of approve, reject
EvaluateBinds(req) == req.decision \in {"approve", "reject"}

\* the update map JudgeEvaluateTeam builds
EvaluateUpdate(req, userId, t) ==
    IF req.decision = "approve"
    THEN [actionedBy |-> userId, registrationStatus |-> "approved",
          approvedAt |-> t]
    ELSE [actionedBy |-> userId, registrationStatus |-> "rejected",
          rejectedAt |-> t, rejectionReason |-> req.reason]

\* JudgeEvaluateTeam up to the result of the UpdateOne
JudgeEvaluateTeam(c, calls) ==
    \E call \in calls :
        LET pid == call[1]
            req == call[2]
        IN IF c.role # "judge"
           THEN Respond("JudgeEvaluateTeam", c, pid, req, 403)
           ELSE IF ~EvaluateBinds(req)
           THEN Respond("JudgeEvaluateTeam", c, pid, req, 400)
           ELSE UpdateNow("JudgeEvaluateTeam", c, pid, req,
                          EvaluateUpdate(req, c.user_id, now))

(***************************************************************************)
(* List routes: paging                                                     *)
(***************************************************************************)
DigitValue ==
    [ch \in {"0", "1", "2", "3", "4", "5", "6", "7", "8", "9"} |->
        IF ch = "0" THEN 0 ELSE IF ch = "1" THEN 1 ELSE IF ch = "2" THEN 2
        ELSE IF ch = "3" THEN 3 ELSE IF ch = "4" THEN 4 ELSE IF ch = "5" THEN 5
        ELSE IF ch = "6" THEN 6 ELSE IF ch = "7" THEN 7 ELSE IF ch = "8" THEN 8
        ELSE 9]

\* the loop of parseInt: result = result*10 + digit in Go's int, which wraps
\* around; 0 at the first character that is not a digit
RECURSIVE parseIntLoop(_, _)
parseIntLoop(s, result) ==
    IF s = <<>> THEN result
    ELSE IF Head(s) \notin DOMAIN DigitValue THEN Word(0)
    ELSE parseIntLoop(Tail(s), MulAdd(result, 10, DigitValue[Head(s)]))

\* parseInt: 0 for the empty string and for a string with a character that
\* is not a digit, the decimal value modulo 2^64 otherwise
parseInt(s) == IF s = <<>> THEN Word(0) ELSE parseIntLoop(s, Word(0))

\* page := 1, replaced by the parsed value when that is positive
EffectivePage(pageStr) ==
    IF pageStr # <<>> /\ Positive(parseInt(pageStr))
    THEN parseInt(pageStr) ELSE Word(1)

\* a limit that is cut down to 100 when the parsed value is larger
EffectiveLimit_Capped(limitStr) ==
    IF limitStr # <<>> /\ Positive(parseInt(limitStr))
       /\ ~AtMost(parseInt(limitStr), MaxLimit)
    THEN MaxLimit
    ELSE IF limitStr # <<>> /\ Positive(parseInt(limitStr))
    THEN parseInt(limitStr)[1] ELSE DefaultLimit

\* limit := 10, replaced by the parsed value when that is in 1..100
EffectiveLimit(limitStr) ==
    IF limitStr # <<>> /\ Positive(parseInt(limitStr))
       /\ AtMost(parseInt(limitStr), MaxLimit)
    THEN parseInt(limitStr)[1] ELSE DefaultLimit

\* skip := int64((page - 1) * limit), in wrapping arithmetic
Skip(page, limit) == MulAdd(Dec(page), limit, 0)

\* the documents skip+1 .. skip+limit of a cursor, for a skip that is not
\* negative
PageOf(docs, limit, skip) ==
    LET n == IF AtMost(skip, Len(docs)) THEN skip[1] ELSE Len(docs)
    IN IF n >= Len(docs) THEN <<>>
       ELSE SubSeq(docs, n + 1,
                   IF n + limit < Len(docs) THEN n + limit ELSE Len(docs))

\* the result of a Find that failed
FindError == [err |-> TRUE, docs |-> <<>>]

\* the result of a Find that returned these documents
Found(docs) == [err |-> FALSE, docs |-> docs]

(***************************************************************************)
(* GET /users                                                              *)
(***************************************************************************)
\* the query string of a list request; a parameter that is absent is <<>> or
\* "", as c.Query returns "" for it
Query(page, limit, status) ==
    [page |-> page, limit |-> limit, status |-> status, track |-> "",
     institution |-> <<>>]

\* the same request with a track and an institution parameter
Where(q, track, institution) ==
    [q EXCEPT !.track = track, !.institution = institution]

NoQuery == Query(<<>>, <<>>, "")

\* DatabaseService.GetAllUsers: Find with limit and skip, no sort; the store
\* refuses a negative skip
DBGetAllUsers(us, limit, skip) ==
    IF Negative(skip) THEN FindError ELSE Found(PageOf(us, limit, skip))

\* the paging of a list response
Pagination(items, page, limit, total) ==
    [items |-> items, page |-> page, limit |-> limit, total |-> total]

\* GetAllUsers up to the result of h.DB.GetAllUsers
GetAllUsers(c, queries) ==
    \E q \in queries :
        LET page == EffectivePage(q.page)
            limit == EffectiveLimit(q.limit)
            found == DBGetAllUsers(users, limit, Skip(page, limit))
        IN IF found.err THEN Respond("GetAllUsers", c, "", q, 500)
           ELSE /\ Await("GetAllUsers", c, "", q, "ListCount",
                         Pagination([k \in DOMAIN found.docs |-> found.docs[k].id],
                                    page, limit, 0))
                /\ UNCHANGED <<users, nextUid, bootDone, teams, nextTid,
                               issued, now>>

\* the second call of a list handler: h.DB.CountUsers or
\* h.DB.CountTeamRegistrations, neither with a filter, and the 200 response
ListCount ==
    \E k \in AtPc("ListCount") :
        /\ last' = [Answer(k, "ListCount", 200) EXCEPT
                        !.body = [inflight[k].loc EXCEPT
                            !.total = IF inflight[k].route = "GetAllUsers"
                                      THEN CountUsers(users)
                                      ELSE CountDocuments(teams)]]
        /\ inflight' = RemoveAt(inflight, k)
        /\ UNCHANGED <<users, nextUid, bootDone, teams, nextTid, issued, now>>

(***************************************************************************)
(* GET /team-registrations                                                 *)
(***************************************************************************)
\* cursor.Decode: the listing fails when a document of the result does not
\* decode
AllDecode(ts) == \A i \in 1..Len(ts) : Decodes(ts[i])

UpperCase ==
    <<"A", "B", "C", "D", "E", "F", "G", "H", "I", "J", "K", "L", "M",
      "N", "O", "P", "Q", "R", "S", "T", "U", "V", "W", "X", "Y", "Z">>
LowerCase ==
    <<"a", "b", "c", "d", "e", "f", "g", "h", "i", "j", "k", "l", "m",
      "n", "o", "p", "q", "r", "s", "t", "u", "v", "w", "x", "y", "z">>

\* case folding of $options "i"
Fold(ch) ==
    IF \E n \in DOMAIN UpperCase : UpperCase[n] = ch
    THEN LowerCase[CHOOSE n \in DOMAIN UpperCase : UpperCase[n] = ch]
    ELSE ch

\* the patterns of the model are made of letters, "." (any character) and
\* "(": a pattern with a group that is never closed does not compile, and
\* the store refuses the query
RegexCompiles(pattern) == \A n \in DOMAIN pattern : pattern[n] # "("

\* {"$regex": pattern, "$options": "i"}: the pattern matches somewhere in s
RegexMatches(s, pattern) ==
    \E at \in 0..(Len(s) - Len(pattern)) :
        \A n \in DOMAIN pattern :
            pattern[n] = "." \/ Fold(s[at + n]) = Fold(pattern[n])

\* the filter GetAllTeamRegistrations builds from the query: a key for each
\* of status, track and institution that is not empty
ListFilter(q) ==
    [f \in (IF q.status # "" THEN {"registrationStatus"} ELSE {})
           \cup (IF q.track # "" THEN {"track"} ELSE {})
           \cup (IF q.institution # <<>> THEN {"institution"} ELSE {}) |->
        IF f = "registrationStatus" THEN q.status
        ELSE IF f = "track" THEN q.track ELSE q.institution]

\* the filter can be evaluated by the store
FilterOK(filter) ==
    "institution" \in DOMAIN filter => RegexCompiles(filter["institution"])

\* the document satisfies every key of the filter
MatchesFilter(tm, filter) ==
    \A f \in DOMAIN filter :
        IF f = "institution" THEN RegexMatches(tm.institution, filter[f])
        ELSE tm[f] = filter[f]

\* the orders in which a cursor can deliver the documents at the indexes S
\* when it takes them in insertion order
RECURSIVE Cursors_Unsorted(_, _)
Cursors_Unsorted(ts, S) ==
    IF S = {} THEN {<<>>}
    ELSE LET first == CHOOSE i \in S : \A j \in S : i <= j
         IN {<<ts[first]>> \o rest : rest \in Cursors_Unsorted(ts, S \ {first})}

\* the orders in which a cursor sorted by submittedAt descending can deliver
\* the documents at the indexes S: the next document is any of the latest
\* submitted of those that remain, so documents of equal time come in any
\* order
RECURSIVE Cursors(_, _)
Cursors(ts, S) ==
    IF S = {} THEN {<<>>}
    ELSE UNION { {<<ts[i]>> \o rest : rest \in Cursors(ts, S \ {i})} :
                   i \in {m \in S : \A j \in S :
                              ts[m].submittedAt >= ts[j].submittedAt} }

\* DatabaseService.GetAllTeamRegistrations: Find(filter) sorted by
\* submittedAt descending, with skip and limit, and the decoding of the
\* documents returned; the possible results.  The store refuses a negative
\* skip and a pattern that does not compile
DBGetAllTeamRegistrations(ts, limit, skip, filter) ==
    IF Negative(skip) \/ ~FilterOK(filter) THEN {FindError}
    ELSE { IF AllDecode(PageOf(docs, limit, skip))
           THEN Found(PageOf(docs, limit, skip)) ELSE FindError :
             docs \in Cursors(ts, {i \in DOMAIN ts : MatchesFilter(ts[i], filter)}) }

\* GetAllTeamRegistrations up to the result of h.DB.GetAllTeamRegistrations
GetAllTeamRegistrations(c, queries) ==
    \E q \in queries :
        LET page == EffectivePage(q.page)
            limit == EffectiveLimit(q.limit)
        IN \E found \in DBGetAllTeamRegistrations(teams, limit,
                            Skip(page, limit), ListFilter(q)) :
               IF found.err
               THEN Respond("GetAllTeamRegistrations", c, "", q, 500)
               ELSE /\ Await("GetAllTeamRegistrations", c, "", q, "ListCount",
                             Pagination([k \in DOMAIN found.docs |->
                                            found.docs[k].id],
                                        page, limit, 0))
                    /\ UNCHANGED <<users, nextUid, bootDone, teams, nextTid,
                                   issued, now>>

(***************************************************************************)
(* GET /team-registrations/stats                                           *)
(***************************************************************************)
\* DatabaseService.CountTeamRegistrationsByStatus
CountTeamRegistrationsByStatus(ts, status) ==
    Cardinality({i \in DOMAIN ts : ts[i].registrationStatus = status})

\* the statuses GetTeamRegistrationStats counts after the total, in order
StatsOrder == <<"approved", "pending", "rejected">>

\* GetTeamRegistrationStats up to the result of CountTeamRegistrations
GetTeamRegistrationStats(c) ==
    /\ Await("GetTeamRegistrationStats", c, "", NoReq, "StatsCount",
             [total |-> CountDocuments(teams), byStatus |-> <<>>])
    /\ UNCHANGED <<users, nextUid, bootDone, teams, nextTid, issued, now>>

\* the next CountTeamRegistrationsByStatus of GetTeamRegistrationStats, and
\* after the last one the 200 response with the four counts
StatsCount ==
    \E k \in AtPc("StatsCount") :
        LET loc == inflight[k].loc
            counted == Append(loc.byStatus,
                           CountTeamRegistrationsByStatus(teams,
                               StatsOrder[Len(loc.byStatus) + 1]))
        IN /\ IF Len(counted) < Len(StatsOrder)
              THEN Continue(k, "StatsCount", "StatsCount",
                            [loc EXCEPT !.byStatus = counted])
              ELSE /\ last' = [Answer(k, "StatsCount", 200) EXCEPT
                                  !.body = [total |-> loc.total,
                                            approved |-> counted[1],
                                            pending |-> counted[2],
                                            rejected |-> counted[3]]]
                   /\ inflight' = RemoveAt(inflight, k)
           /\ UNCHANGED <<users, nextUid, bootDone, teams, nextTid, issued, now>>

(***************************************************************************)
(* GET /team-registrations/reg/:regNumber, /track/:track, /allocated       *)
(***************************************************************************)
RegNumbers == {"PCCOEIGC001", "PCCOEIGC009"}

GetTeamRegistrationByRegNumber(c, regs) ==
    \E reg \in regs :
        LET r == GetTeamRegistrationByRegistrationNumber(teams, reg)
        IN /\ last' = [Reply("GetTeamRegistrationByRegNumber", c, reg, NoReq,
                             IF r.err = "ok" THEN 200 ELSE 404)
                          EXCEPT !.body = IF r.err = "ok" THEN teams[r.idx]
                                          ELSE NoBody]
           /\ UNCHANGED <<users, nextUid, bootDone, teams, nextTid, issued,
                          now, inflight>>

\* a list handler that makes one call: the response to its result
ListOnce(route, c, pid, q, limit, skip, filter) ==
    \E found \in DBGetAllTeamRegistrations(teams, limit, skip, filter) :
        /\ last' = [Reply(route, c, pid, q, IF found.err THEN 500 ELSE 200)
                       EXCEPT !.body =
                           IF found.err THEN NoBody
                           ELSE [items |-> [k \in DOMAIN found.docs |->
                                               found.docs[k].id]]]
        /\ UNCHANGED <<users, nextUid, bootDone, teams, nextTid, issued, now,
                       inflight>>

\* the track of the path with the page and limit of the query
GetTeamRegistrationsByTrack(c, tracks, queries) ==
    \E track \in tracks, q \in queries :
        ListOnce("GetTeamRegistrationsByTrack", c, track, q,
                 EffectiveLimit(q.limit),
                 Skip(EffectivePage(q.page), EffectiveLimit(q.limit)),
                 [track |-> track])

GetAllocatedTeamsForJudge(c) ==
    IF c.role # "judge"
    THEN Respond("GetAllocatedTeamsForJudge", c, "", NoReq, 403)
    ELSE ListOnce("GetAllocatedTeamsForJudge", c, "", NoReq,
                  AllocatedLimit, Word(0), [allocatedJudgeId |-> c.user_id])

Health(c) == Respond("Health", c, "", NoReq, 200)

Root(c) == Respond("Root", c, "", NoReq, 200)

(***************************************************************************)
(* Clock                                                                   *)
(***************************************************************************)
Tick ==
    /\ now + TickStep <= MaxTime
    /\ now' = now + TickStep
    /\ UNCHANGED <<users, nextUid, bootDone, teams, nextTid, issued, last, inflight>>

Init ==
    /\ users = <<>>
    /\ nextUid = 1
    /\ bootDone = FALSE
    /\ teams = <<>>
    /\ nextTid = 1
    /\ issued = {}
    /\ now = 0
    /\ last = NoReply("none")
    /\ inflight = <<>>

(***************************************************************************)
(* Scheduling.  gin runs every request in its own goroutine, so the steps  *)
(* of requests in flight interleave freely; in a specification of requests *)
(* processed one at a time a request starts only when none is in flight.   *)
(***************************************************************************)
Serial == inflight = <<>>

\* the later database calls of the user handlers
UserCalls ==
    \/ InsertUserEnd
    \/ UpdateUserLookup
    \/ UpdateUserWrite
    \/ UpdateUserReadBack

\* the later database calls of the handlers that write a registration
TeamUpdateCalls ==
    \/ UpdateTeamWrite
    \/ UpdateTeamReadBack

\* the later database calls of CreateTeamRegistration
TeamCreateCalls ==
    \/ CreateTeamRegistrationCount
    \/ CreateTeamRegistrationEnd

(***************************************************************************)
(* The user handlers, requests processed one at a time                     *)
(***************************************************************************)
RouteLogin == Public({NoHeader}, LAMBDA c : Login(c, LoginReqs))
RouteCreateUser == Protected("CreateUser", Headers, LAMBDA c : CreateUser(c, CreateUserReqs))
RouteUpdateUser == Protected("UpdateUser", Headers, LAMBDA c : UpdateUser(c, UpdateUserCalls))
RouteDeleteUser == Protected("DeleteUser", Headers, LAMBDA c : DeleteUser(c, PathUserIds))
RouteCreateDefaultAdmin == Public({NoHeader}, CreateDefaultAdmin)
CallCreateJudge == Public({NoHeader}, LAMBDA c : CreateJudge(c, CreateJudgeReqs))

NextUsers ==
    \/ Serial /\ createDefaultAdminUser
    \/ Serial /\ RouteLogin
    \/ Serial /\ RouteCreateUser
    \/ Serial /\ RouteUpdateUser
    \/ Serial /\ RouteDeleteUser
    \/ Serial /\ RouteCreateDefaultAdmin
    \/ Serial /\ CallCreateJudge
    \/ UserCalls

SpecUsers == Init /\ [][NextUsers]_vars

(***************************************************************************)
(* Logins and user creations, requests overlapping                         *)
(***************************************************************************)
NextAccounts ==
    \/ createDefaultAdminUser
    \/ RouteCreateDefaultAdmin
    \/ RouteLogin
    \/ RouteCreateUser
    \/ RouteDeleteUser
    \/ InsertUserEnd

SpecAccounts == Init /\ [][NextAccounts]_vars

(***************************************************************************)
(* The team registration handlers, behind the routes of SetupRoutes        *)
(***************************************************************************)
SetupReqs ==
    { CreateUserReq("jo@x.io", "secret1", "judge", "Jo", "PCCOE") }

AdminLogin == { LoginReq("admin", "igc#407@") }

SetupLogins == AdminLogin \cup { LoginReq("jo@x.io", "secret1") }

SetupTeamReqs ==
    { CreateTeamReq("Alpha", FALSE, <<NmA>>, TRUE),
      CreateTeamReq("Beta", FALSE, <<NmA, NmB, NmC, NmD>>, TRUE) }

\* registration and edits, one request at a time: the default admin, its
\* login, POST /team-registrations, PUT and DELETE /team-registrations/:id
RegisterLogin == Public({NoHeader}, LAMBDA c : Login(c, AdminLogin))
EditTeamReqs ==
    { CreateTeamReq("Alpha", FALSE, <<NmA>>, TRUE),
      CreateTeamReq("Beta", FALSE, <<NmA, NmB, NmC, NmD>>, TRUE),
      CreateTeamReq("Beta", FALSE, <<NmNewline>>, TRUE),
      CreateTeamReq("Alpha", FALSE, <<NmA>>, FALSE) }
EditUpdateCalls ==
    ({NewTeamObjectID(1), NewTeamObjectID(2)} \X
        { UpdateTeamReq("Beta", TRUE, <<>>, "none"),
          UpdateTeamReq("", FALSE, <<>>, "none"),
          UpdateTeamReq("", FALSE, <<NmA, NmB, NmC, NmD, NmE>>, "none"),
          UpdateTeamReq("", TRUE, <<>>, "none"),
          WithTrack(UpdateTeamReq("", TRUE, <<>>, "none"), ""),
          WithTrack(UpdateTeamReq("", TRUE, <<>>, "none"), "Smart Agriculture") })
    \cup ({"dead", "zz"} \X {UpdateTeamReq("Beta", TRUE, <<>>, "none")})
RouteCreateTeamRegistration ==
    Protected("CreateTeamRegistration", Headers,
              LAMBDA c : CreateTeamRegistration(c, EditTeamReqs))
RouteUpdateTeamRegistration ==
    Protected("UpdateTeamRegistration", Headers,
              LAMBDA c : UpdateTeamRegistration(c, EditUpdateCalls))
RouteDeleteTeamRegistration ==
    Protected("DeleteTeamRegistration", Headers,
              LAMBDA c : DeleteTeamRegistration(c, PathTeamIds))

NextEdit ==
    \/ Serial /\ RouteCreateDefaultAdmin
    \/ Serial /\ RegisterLogin
    \/ Serial /\ RouteCreateTeamRegistration
    \/ Serial /\ RouteUpdateTeamRegistration
    \/ Serial /\ RouteDeleteTeamRegistration
    \/ InsertUserEnd
    \/ TeamCreateCalls
    \/ TeamUpdateCalls

SpecEdit == Init /\ [][NextEdit]_vars

\* allocation and evaluation: an admin, a judge, registered teams
JudgeLogin == Public({NoHeader}, LAMBDA c : Login(c, SetupLogins))
JudgeCreateUser ==
    Protected("CreateUser", Headers, LAMBDA c : CreateUser(c, SetupReqs))
JudgeCreateTeam ==
    Protected("CreateTeamRegistration", Headers,
              LAMBDA c : CreateTeamRegistration(c, SetupTeamReqs))
RouteAllocate ==
    Protected("AllocateTeamToJudge", Headers,
              LAMBDA c : AllocateTeamToJudge(c, AllocateCalls))
RouteEvaluate ==
    Protected("JudgeEvaluateTeam", Headers,
              LAMBDA c : JudgeEvaluateTeam(c, EvaluateCalls))

NextJudge ==
    \/ Serial /\ RouteCreateDefaultAdmin
    \/ Serial /\ JudgeLogin
    \/ Serial /\ JudgeCreateUser
    \/ Serial /\ JudgeCreateTeam
    \/ Serial /\ RouteAllocate
    \/ Serial /\ RouteEvaluate
    \/ InsertUserEnd
    \/ TeamCreateCalls
    \/ UpdateTeamReadBack

SpecJudge == Init /\ [][NextJudge]_vars

\* the role checks, requests overlapping: allocate and evaluate with every
\* body, by an admin and by a judge, on one registration
GateTeamReq == { CreateTeamReq("Alpha", FALSE, <<NmA>>, TRUE) }
GateAllocateCalls ==
    {NewTeamObjectID(1)} \X {AllocateReq(""), AllocateReq(NewUserObjectID(2))}
GateEvaluateCalls == {NewTeamObjectID(1)} \X EvaluateReqs
GateCreateTeam ==
    Protected("CreateTeamRegistration", Headers,
              LAMBDA c : CreateTeamRegistration(c, GateTeamReq))
GateAllocate ==
    Protected("AllocateTeamToJudge", Headers,
              LAMBDA c : AllocateTeamToJudge(c, GateAllocateCalls))
GateEvaluate ==
    Protected("JudgeEvaluateTeam", Headers,
              LAMBDA c : JudgeEvaluateTeam(c, GateEvaluateCalls))

NextGate ==
    \/ Serial /\ RouteCreateDefaultAdmin
    \/ Serial /\ JudgeLogin
    \/ Serial /\ JudgeCreateUser
    \/ Serial /\ GateCreateTeam
    \/ GateAllocate
    \/ GateEvaluate
    \/ InsertUserEnd
    \/ TeamCreateCalls
    \/ UpdateTeamReadBack

SpecGate == Init /\ [][NextGate]_vars

\* the operations the handlers' comments mark "admin only"
AdminCreateUser ==
    Protected("CreateUser", Headers, LAMBDA c : CreateUser(c, SetupReqs))
RouteApproveOrReject ==
    Protected("ApproveOrRejectTeamRegistration", Headers,
              LAMBDA c : ApproveOrRejectTeamRegistration(c, ActionCalls))
AdminDeleteTeam ==
    Protected("DeleteTeamRegistration", Headers,
              LAMBDA c : DeleteTeamRegistration(c, PathTeamIds))

NextAdminOps ==
    \/ Serial /\ RouteCreateDefaultAdmin
    \/ Serial /\ JudgeLogin
    \/ Serial /\ AdminCreateUser
    \/ Serial /\ JudgeCreateTeam
    \/ Serial /\ RouteApproveOrReject
    \/ Serial /\ AdminDeleteTeam
    \/ InsertUserEnd
    \/ TeamCreateCalls
    \/ TeamUpdateCalls

SpecAdminOps == Init /\ [][NextAdminOps]_vars

(***************************************************************************)
(* Every route SetupRoutes registers, under every kind of Authorization    *)
(* header, with the clock running                                          *)
(***************************************************************************)
AuthUpdateUserCalls == {<<NewUserObjectID(1), UpdateUserReq("", "changed")>>}
AuthUserIds == {NewUserObjectID(1)}
AuthTeamIds == {NewTeamObjectID(1)}
AuthTeamReq == { CreateTeamReq("Alpha", FALSE, <<NmA>>, TRUE) }
AuthUpdateTeamCalls ==
    {<<NewTeamObjectID(1), UpdateTeamReq("Beta", TRUE, <<>>, "none")>>}
\* the action, allocate and evaluate routes are asked for a registration that
\* does not exist
AuthActionCalls == {<<"dead", ActionReq("approve", "", "adm")>>}
AuthAllocateCalls == {<<"dead", AllocateReq(NewUserObjectID(1))>>}
AuthEvaluateCalls == {<<"dead", EvaluateReq("approve", "")>>}

AuthLogin == Public({NoHeader}, LAMBDA c : Login(c, SetupLogins))
AuthCreateUser ==
    Protected("CreateUser", AllHeaders, LAMBDA c : CreateUser(c, SetupReqs))
AuthGetAllUsers ==
    Protected("GetAllUsers", Headers, LAMBDA c : GetAllUsers(c, {NoQuery}))
AuthGetUser ==
    Protected("GetUser", Headers, LAMBDA c : GetUser(c, AuthUserIds))
AuthUpdateUser ==
    Protected("UpdateUser", AllHeaders,
              LAMBDA c : UpdateUser(c, AuthUpdateUserCalls))
AuthDeleteUser ==
    Protected("DeleteUser", AllHeaders, LAMBDA c : DeleteUser(c, AuthUserIds))
AuthCreateTeam ==
    Protected("CreateTeamRegistration", Headers,
              LAMBDA c : CreateTeamRegistration(c, AuthTeamReq))
AuthGetAllTeams ==
    Protected("GetAllTeamRegistrations", Headers,
              LAMBDA c : GetAllTeamRegistrations(c, {NoQuery}))
AuthStats ==
    Protected("GetTeamRegistrationStats", Headers, GetTeamRegistrationStats)
AuthGetTeam ==
    Protected("GetTeamRegistration", Headers,
              LAMBDA c : GetTeamRegistration(c, AuthTeamIds))
AuthUpdateTeam ==
    Protected("UpdateTeamRegistration", Headers,
              LAMBDA c : UpdateTeamRegistration(c, AuthUpdateTeamCalls))
AuthDeleteTeam ==
    Protected("DeleteTeamRegistration", Headers,
              LAMBDA c : DeleteTeamRegistration(c, AuthTeamIds))
AuthAction ==
    Protected("ApproveOrRejectTeamRegistration", Headers,
              LAMBDA c : ApproveOrRejectTeamRegistration(c, AuthActionCalls))
AuthByRegNumber ==
    Protected("GetTeamRegistrationByRegNumber", Headers,
              LAMBDA c : GetTeamRegistrationByRegNumber(c, RegNumbers))
AuthByTrack ==
    Protected("GetTeamRegistrationsByTrack", Headers,
              LAMBDA c : GetTeamRegistrationsByTrack(c, {"Air Quality"},
                                                     {NoQuery}))
AuthAllocate ==
    Protected("AllocateTeamToJudge", Headers,
              LAMBDA c : AllocateTeamToJudge(c, AuthAllocateCalls))
AuthAllocated ==
    Protected("GetAllocatedTeamsForJudge", Headers, GetAllocatedTeamsForJudge)
AuthEvaluate ==
    Protected("JudgeEvaluateTeam", Headers,
              LAMBDA c : JudgeEvaluateTeam(c, AuthEvaluateCalls))
AuthHealth == Public({NoHeader}, Health)
AuthRoot == Public({NoHeader}, Root)

NextAuth ==
    \/ Serial /\ createDefaultAdminUser
    \/ Tick
    \/ Serial /\ AuthLogin
    \/ Serial /\ AuthCreateUser
    \/ Serial /\ AuthGetAllUsers
    \/ Serial /\ AuthGetUser
    \/ Serial /\ AuthUpdateUser
    \/ Serial /\ AuthDeleteUser
    \/ Serial /\ AuthCreateTeam
    \/ Serial /\ AuthGetAllTeams
    \/ Serial /\ AuthStats
    \/ Serial /\ AuthGetTeam
    \/ Serial /\ AuthUpdateTeam
    \/ Serial /\ AuthDeleteTeam
    \/ Serial /\ AuthAction
    \/ Serial /\ AuthByRegNumber
    \/ Serial /\ AuthByTrack
    \/ Serial /\ AuthAllocate
    \/ Serial /\ AuthAllocated
    \/ Serial /\ AuthEvaluate
    \/ Serial /\ AuthHealth
    \/ Serial /\ AuthRoot
    \/ Serial /\ RouteCreateDefaultAdmin
    \/ InsertUserEnd
    \/ UpdateUserWrite
    \/ UpdateUserReadBack
    \/ TeamCreateCalls
    \/ TeamUpdateCalls
    \/ ListCount
    \/ StatsCount

SpecAuth == Init /\ [][NextAuth]_vars

\* the status of a registration, one request at a time: an admin, a judge,
\* registered teams, and every route that writes a registration
StatusUpdateCalls ==
    {NewTeamObjectID(n) : n \in 1..MaxTid}
        \X { UpdateTeamReqWithStatus("valid", "approved"),
             UpdateTeamReqWithStatus("valid", "pending"),
             UpdateTeamReqWithStatus("none", "rejected") }
StatusActionCalls ==
    ActionCalls
    \cup ({NewTeamObjectID(n) : n \in 1..MaxTid}
            \X {ActionReq("reject", "late", "")})
StatusUpdate ==
    Protected("UpdateTeamRegistration", Headers,
              LAMBDA c : UpdateTeamRegistration(c, StatusUpdateCalls))
StatusAction ==
    Protected("ApproveOrRejectTeamRegistration", Headers,
              LAMBDA c : ApproveOrRejectTeamRegistration(c, StatusActionCalls))

NextStatus ==
    \/ Serial /\ RouteCreateDefaultAdmin
    \/ Serial /\ JudgeLogin
    \/ Serial /\ AdminCreateUser
    \/ Serial /\ AuthCreateTeam
    \/ Serial /\ StatusUpdate
    \/ Serial /\ StatusAction
    \/ Serial /\ RouteEvaluate
    \/ Serial /\ RouteAllocate
    \/ Serial /\ AdminDeleteTeam
    \/ InsertUserEnd
    \/ TeamCreateCalls
    \/ TeamUpdateCalls

SpecStatus == Init /\ [][NextStatus]_vars

\* every handler that writes a registration, requests overlapping, on the
\* one registration that is submitted: approvals and rejections by the
\* action route, evaluations by a judge, partial updates whose body names a
\* status, allocations by the admin, and the deletion of the registration
DecideActionCalls ==
    ({NewTeamObjectID(1)} \X
        { ActionReq("approve", "", "adm"), ActionReq("reject", "late", "adm"),
          ActionReq("reject", "", "adm"), ActionReq("reject", "late", "") })
    \cup {<<"dead", ActionReq("reject", "late", "adm")>>}
DecideUpdateCalls ==
    {NewTeamObjectID(1)}
        \X { UpdateTeamReqWithStatus("valid", "approved"),
             UpdateTeamReqWithStatus("valid", "pending"),
             UpdateTeamReqWithStatus("none", "rejected") }
DecideEvaluateCalls ==
    {NewTeamObjectID(1)}
        \X { EvaluateReq("approve", ""), EvaluateReq("reject", "weak") }
DecideAllocateCalls ==
    {NewTeamObjectID(1)} \X {AllocateReq(NewUserObjectID(1)), AllocateReq("zz")}
DecideAction ==
    Protected("ApproveOrRejectTeamRegistration", Headers,
              LAMBDA c : ApproveOrRejectTeamRegistration(c, DecideActionCalls))
DecideUpdate ==
    Protected("UpdateTeamRegistration", Headers,
              LAMBDA c : UpdateTeamRegistration(c, DecideUpdateCalls))
DecideEvaluate ==
    Protected("JudgeEvaluateTeam", Headers,
              LAMBDA c : JudgeEvaluateTeam(c, DecideEvaluateCalls))
DecideAllocate ==
    Protected("AllocateTeamToJudge", Headers,
              LAMBDA c : AllocateTeamToJudge(c, DecideAllocateCalls))
DecideDelete ==
    Protected("DeleteTeamRegistration", Headers,
              LAMBDA c : DeleteTeamRegistration(c, AuthTeamIds))

NextDecide ==
    \/ Serial /\ RouteCreateDefaultAdmin
    \/ Serial /\ JudgeLogin
    \/ Serial /\ AdminCreateUser
    \/ Serial /\ nextTid = 1 /\ GateCreateTeam
    \/ DecideAction
    \/ DecideUpdate
    \/ DecideEvaluate
    \/ DecideAllocate
    \/ DecideDelete
    \/ InsertUserEnd
    \/ TeamCreateCalls
    \/ TeamUpdateCalls

SpecDecide == Init /\ [][NextDecide]_vars

\* approvals of one registration, requests overlapping, while time passes,
\* a rejection and the deletion of the registration among them
ApproveActionCalls ==
    {NewTeamObjectID(1)} \X
        { ActionReq("approve", "", "adm"), ActionReq("approve", "", ""),
          ActionReq("reject", "late", "adm") }
ApproveAction ==
    Protected("ApproveOrRejectTeamRegistration", Headers,
              LAMBDA c : ApproveOrRejectTeamRegistration(c, ApproveActionCalls))
\* the clock moves by less than the lifetime of a token
ApproveTick ==
    /\ now + ListTickStep <= MaxTime
    /\ now' = now + ListTickStep
    /\ UNCHANGED <<users, nextUid, bootDone, teams, nextTid, issued, last,
                   inflight>>

NextApprove ==
    \/ Serial /\ RouteCreateDefaultAdmin
    \/ Serial /\ RegisterLogin
    \/ Serial /\ GateCreateTeam
    \/ ApproveAction
    \/ DecideDelete
    \/ InsertUserEnd
    \/ TeamCreateCalls
    \/ TeamUpdateCalls
    \/ ApproveTick

SpecApprove == Init /\ [][NextApprove]_vars

\* listings, one request at a time: registrations of two institutions on two
\* tracks submitted at different times, some approved, and list requests
\* with every kind of page, limit and filter parameter
ListTeamReqs ==
    { CreateTeamReq("Alpha", FALSE, <<NmA>>, TRUE),
      CreateTeamReq("Beta", FALSE, <<NmA>>, TRUE),
      From(CreateTeamReq("Gamma", FALSE, <<NmA>>, TRUE),
           InstMIT, "Smart Agriculture") }
ListActionCalls == {<<NewTeamObjectID(1), ActionReq("approve", "", "adm")>>}
PagingQueries ==
    { Query(p, l, "") : p \in {<<"1">>, <<"2">>, <<"3">>},
                        l \in {<<"1">>, <<"2">>} }
    \cup { Query(p, <<"1">>, "approved") : p \in {<<"1">>, <<"2">>} }
FilterQueries ==
    { Where(Query(<<"1">>, <<"2">>, ""), "Smart Agriculture", <<>>),
      Where(Query(<<"1">>, <<"2">>, ""), "", <<"c", ".", "O">>),
      Where(Query(<<"1">>, <<"2">>, ""), "", <<"m", "i", "t", "x">>),
      Where(Query(<<"1">>, <<"2">>, ""), "", <<"(", "m">>),
      Where(Query(<<"2">>, <<"1">>, "pending"), "Air Quality", <<"e">>) }
\* the decimal numerals of 2^63 - 1, 2^63, 2^64 + 5 and 2^64 + 100
Int64Max ==
    <<"9", "2", "2", "3", "3", "7", "2", "0", "3", "6", "8", "5", "4", "7",
      "7", "5", "8", "0", "7">>
Int64MaxPlus1 ==
    <<"9", "2", "2", "3", "3", "7", "2", "0", "3", "6", "8", "5", "4", "7",
      "7", "5", "8", "0", "8">>
TwoTo64Plus5 ==
    <<"1", "8", "4", "4", "6", "7", "4", "4", "0", "7", "3", "7", "0", "9",
      "5", "5", "1", "6", "2", "1">>
TwoTo64Plus100 ==
    <<"1", "8", "4", "4", "6", "7", "4", "4", "0", "7", "3", "7", "0", "9",
      "5", "5", "1", "7", "1", "6">>
\* page parameters and limit parameters of every kind
PageQueries ==
    { Query(p, <<>>, "") :
        p \in {<<>>, <<"0">>, <<"x">>, <<"-", "1">>, <<"2">>, Int64Max,
               Int64MaxPlus1, TwoTo64Plus5} }
LimitQueries ==
    { Query(<<>>, l, "") :
        l \in {<<"0">>, <<"x">>, <<"1", "0", "0">>, <<"1", "0", "1">>,
               Int64MaxPlus1, TwoTo64Plus5, TwoTo64Plus100} }

ListCreateTeam ==
    Protected("CreateTeamRegistration", Headers,
              LAMBDA c : CreateTeamRegistration(c, ListTeamReqs))
ListApprove ==
    Protected("ApproveOrRejectTeamRegistration", Headers,
              LAMBDA c : ApproveOrRejectTeamRegistration(c, ListActionCalls))
ListTeams ==
    Protected("GetAllTeamRegistrations", Headers,
              LAMBDA c : GetAllTeamRegistrations(c,
                             PagingQueries \cup FilterQueries))
ListByTrack ==
    Protected("GetTeamRegistrationsByTrack", Headers,
              LAMBDA c : GetTeamRegistrationsByTrack(c,
                             {"Air Quality", "Smart Agriculture"},
                             {NoQuery, Query(<<"2">>, <<"1">>, "")}))

\* time passes between requests
ListTick ==
    /\ now + ListTickStep <= MaxTime
    /\ now' = now + ListTickStep
    /\ UNCHANGED <<users, nextUid, bootDone, teams, nextTid, issued, last, inflight>>

NextList ==
    \/ Serial /\ RouteCreateDefaultAdmin
    \/ Serial /\ RegisterLogin
    \/ Serial /\ ListCreateTeam
    \/ Serial /\ ListApprove
    \/ Serial /\ ListTeams
    \/ Serial /\ ListByTrack
    \/ Serial /\ ListTick
    \/ InsertUserEnd
    \/ TeamCreateCalls
    \/ TeamUpdateCalls
    \/ ListCount

SpecList == Init /\ [][NextList]_vars

\* the page and limit parameters, requests overlapping: both list routes
\* with every kind of parameter, over the users and registrations stored
PagingUsers ==
    Protected("GetAllUsers", Headers, LAMBDA c : GetAllUsers(c, PageQueries))
PagingTeams ==
    Protected("GetAllTeamRegistrations", Headers,
              LAMBDA c : GetAllTeamRegistrations(c, LimitQueries))

NextPaging ==
    \/ Serial /\ RouteCreateDefaultAdmin
    \/ Serial /\ RegisterLogin
    \/ Serial /\ GateCreateTeam
    \/ PagingUsers
    \/ PagingTeams
    \/ InsertUserEnd
    \/ TeamCreateCalls
    \/ ListCount

SpecPaging == Init /\ [][NextPaging]_vars

\* fetching what was registered, one request at a time: creations and
\* deletions, GET /team-registrations/:id and GET
\* /team-registrations/reg/:regNumber
FetchRegNumbers == {"PCCOEIGC" \o Sprintf03d(n) : n \in 1..MaxTid}
FetchById ==
    Protected("GetTeamRegistration", Headers,
              LAMBDA c : GetTeamRegistration(c, PathTeamIds))
FetchByRegNumber ==
    Protected("GetTeamRegistrationByRegNumber", Headers,
              LAMBDA c : GetTeamRegistrationByRegNumber(c, FetchRegNumbers))

NextFetch ==
    \/ Serial /\ RouteCreateDefaultAdmin
    \/ Serial /\ RegisterLogin
    \/ Serial /\ ListCreateTeam
    \/ Serial /\ RouteDeleteTeamRegistration
    \/ Serial /\ FetchById
    \/ Serial /\ FetchByRegNumber
    \/ InsertUserEnd
    \/ TeamCreateCalls

SpecFetch == Init /\ [][NextFetch]_vars

\* the life of a token: a login, requests to routes behind the middleware
\* under every kind of Authorization header, overlapping, and a clock that
\* runs past the expiry of the token
ExpiryTick ==
    /\ now <= MaxTime
    /\ now' = now + ListTickStep
    /\ UNCHANGED <<users, nextUid, bootDone, teams, nextTid, issued, last, inflight>>

NextExpiry ==
    \/ RouteCreateDefaultAdmin
    \/ RegisterLogin
    \/ ExpiryTick
    \/ AuthUpdateUser
    \/ AuthDeleteUser
    \/ InsertUserEnd
    \/ UpdateUserWrite
    \/ UpdateUserReadBack

SpecExpiry == Init /\ [][NextExpiry]_vars

\* registrations, requests overlapping
RaceCreateTeam ==
    Protected("CreateTeamRegistration", Headers,
              LAMBDA c : CreateTeamRegistration(c, CreateTeamReqs))

NextRace ==
    \/ Serial /\ RouteCreateDefaultAdmin
    \/ Serial /\ RegisterLogin
    \/ RaceCreateTeam
    \/ InsertUserEnd
    \/ TeamCreateCalls

SpecRace == Init /\ [][NextRace]_vars

\* user creations, requests overlapping with each other and with the
\* startup goroutine
RaceCreateUser ==
    Protected("CreateUser", Headers, LAMBDA c : CreateUser(c, SetupReqs))

NextUserRace ==
    \/ createDefaultAdminUser
    \/ RouteCreateDefaultAdmin
    \/ RegisterLogin
    \/ RaceCreateUser
    \/ InsertUserEnd

SpecUserRace == Init /\ [][NextUserRace]_vars

\* rejections, one request at a time: the two ways a registration becomes
\* rejected, with and without a reason in the body
ReasonActionCalls == {NewTeamObjectID(1)} \X ActionReqs
ReasonEvaluateCalls ==
    {NewTeamObjectID(1)}
        \X { EvaluateReq("reject", ""), EvaluateReq("reject", "weak"),
             EvaluateReq("approve", "") }
ReasonAction ==
    Protected("ApproveOrRejectTeamRegistration", Headers,
              LAMBDA c : ApproveOrRejectTeamRegistration(c, ReasonActionCalls))
ReasonEvaluate ==
    Protected("JudgeEvaluateTeam", Headers,
              LAMBDA c : JudgeEvaluateTeam(c, ReasonEvaluateCalls))

NextReason ==
    \/ Serial /\ RouteCreateDefaultAdmin
    \/ Serial /\ JudgeLogin
    \/ Serial /\ AdminCreateUser
    \/ Serial /\ AuthCreateTeam
    \/ Serial /\ ReasonAction
    \/ Serial /\ ReasonEvaluate
    \/ InsertUserEnd
    \/ TeamCreateCalls
    \/ TeamUpdateCalls

SpecReason == Init /\ [][NextReason]_vars

\* sessions, requests overlapping: tokens of an admin and of a judge, used
\* on the role-checked routes while users are changed and deleted and time
\* passes
SessionAllocateCalls == {<<NewTeamObjectID(1), AllocateReq(NewUserObjectID(2))>>}
SessionEvaluateCalls == {<<NewTeamObjectID(1), EvaluateReq("approve", "")>>}
SessionAllocate ==
    Protected("AllocateTeamToJudge", Headers,
              LAMBDA c : AllocateTeamToJudge(c, SessionAllocateCalls))
SessionEvaluate ==
    Protected("JudgeEvaluateTeam", Headers,
              LAMBDA c : JudgeEvaluateTeam(c, SessionEvaluateCalls))
SessionUpdateUser ==
    Protected("UpdateUser", Headers, LAMBDA c : UpdateUser(c, AuthUpdateUserCalls))
SessionDeleteUser ==
    Protected("DeleteUser", Headers, LAMBDA c : DeleteUser(c, AuthUserIds))

NextSession ==
    \/ Serial /\ RouteCreateDefaultAdmin
    \/ Serial /\ JudgeLogin
    \/ Serial /\ AdminCreateUser
    \/ Serial /\ AuthCreateTeam
    \/ SessionAllocate
    \/ SessionEvaluate
    \/ SessionUpdateUser
    \/ SessionDeleteUser
    \/ ExpiryTick
    \/ InsertUserEnd
    \/ UpdateUserWrite
    \/ UpdateUserReadBack
    \/ TeamCreateCalls
    \/ UpdateTeamReadBack

SpecSession == Init /\ [][NextSession]_vars

\* failing lookups, one request at a time: a registration whose
\* allocatedJudgeId was set to a string that is no ObjectID no longer
\* decodes, so the name lookup that finds it returns an error that is not
\* "not found"
LookupAllocateCalls ==
    {NewTeamObjectID(n) : n \in 1..MaxTid}
        \X {AllocateReq("zz"), AllocateReq(NewUserObjectID(1))}
LookupAllocate ==
    Protected("AllocateTeamToJudge", Headers,
              LAMBDA c : AllocateTeamToJudge(c, LookupAllocateCalls))

NextLookup ==
    \/ Serial /\ RouteCreateDefaultAdmin
    \/ Serial /\ RegisterLogin
    \/ Serial /\ JudgeCreateTeam
    \/ Serial /\ LookupAllocate
    \/ InsertUserEnd
    \/ TeamCreateCalls
    \/ UpdateTeamReadBack

SpecLookup == Init /\ [][NextLookup]_vars

(***************************************************************************)
(* Properties                                                              *)
(***************************************************************************)
\* the stored users whose username and password are the ones of the request
Matching(us, req) ==
    {i \in DOMAIN us : us[i].username = req.username /\ us[i].password = req.password}

\* C1 as stated: Login returns 200 with a token exactly when a stored user has
\* that username and that password, the token's role is that user's role, and
\* in every other case the answer is 401 without a token.
C1_AsStated ==
    last.route = "Login" =>
        IF Matching(users, last.req) # {}
        THEN /\ last.status = 200
             /\ \E i \in Matching(users, last.req) :
                    /\ last.token.role = users[i].role
                    /\ last.token.user_id = users[i].id
                    /\ last.token.key = "server"
        ELSE last.status = 401 /\ last.token = NullToken

\* the stored users with the username of the request
Named(us, req) == {i \in DOMAIN us : us[i].username = req.username}

\* C1 (amended): a login request with an empty username or password is
\* answered 400 without a token.  Otherwise the answer is 200 with a token
\* or 401 without one: 401 when no stored user has that username and that
\* password; 200 when the one stored user of that username has that
\* password; and a token that is issued carries the role and the id of a
\* stored user with that username and password.  (When several stored users
\* share the username, the login is judged against one of them.)
C1_Login ==
    last.route = "Login" =>
        IF last.req.username = "" \/ last.req.password = ""
        THEN last.status = 400 /\ last.token = NullToken
        ELSE /\ \/ /\ last.status = 200
                   /\ \E i \in Matching(users, last.req) :
                          /\ last.token.role = users[i].role
                          /\ last.token.user_id = users[i].id
                          /\ last.token.key = "server"
                \/ last.status = 401 /\ last.token = NullToken
             /\ Matching(users, last.req) = {} => last.status = 401
             /\ (/\ Cardinality(Named(users, last.req)) = 1
                 /\ Matching(users, last.req) # {}) => last.status = 200

\* a judge has logged in and holds a token
C1_Witness ==
    /\ last.route = "Login" /\ last.status = 200
    /\ last.token.role = "judge"
    /\ \E i \in DOMAIN users : users[i].username = last.req.username

\* the body of a CreateUser request satisfies the binding rules
ValidCreateUserBody(req) ==
    /\ Len(req.username) \in MinUsernameLen..MaxUsernameLen
    /\ Len(req.password) >= MinPasswordLen
    /\ req.role = "admin" \/ req.role = "judge"

\* the step is a CreateUser call that reached the handler with a username
\* some stored user has: the step runs the handler from its start to the
\* answer of the username lookup
CreateUserOnTakenName ==
    /\ last'.route = "CreateUser" /\ last'.step = "begin"
    /\ last'.status # 401
    /\ \E i \in DOMAIN users : users[i].username = last'.req.username

\* C7 as stated: CreateUser with a username some stored user already has
\* returns 409 and leaves the users collection as it was.
C7_AsStated ==
    [][CreateUserOnTakenName => (last'.status = 409 /\ users' = users)]_vars

\* C7 (amended): CreateUser with a body that passes validation and a username
\* some stored user already has returns 409; with a body that fails validation
\* it returns 400; either way no user is inserted and the stored users are
\* unchanged.
C7_DuplicateUsername ==
    [][CreateUserOnTakenName =>
          /\ users' = users
          /\ last'.status = IF ValidCreateUserBody(last'.req) THEN 409 ELSE 400]_vars

\* a CreateUser call for a stored username was answered 409
C7_Witness ==
    /\ last.route = "CreateUser" /\ last.status = 409
    /\ \E i \in DOMAIN users : users[i].username = last.req.username

\* C8: with requests processed one at a time and no store errors, no two
\* stored users have the same username.
C8_UniqueUsernames ==
    \A i, j \in DOMAIN users :
        i # j => users[i].username # users[j].username

\* two users are stored and a rename onto the other's name was refused by
\* the lookup UpdateUser makes before it writes
C8_Witness ==
    /\ Len(users) >= 2
    /\ last.route = "UpdateUser" /\ last.status = 409
    /\ last.step = "UpdateUserLookup"

\* the header carries a bearer token the server signed that has not expired
CarriesValidToken(h, t) ==
    /\ h.scheme = "Bearer"
    /\ h.token.wellformed
    /\ h.token.alg \in {"HS256", "HS384", "HS512"}
    /\ h.token.key = "server"
    /\ t < h.token.exp

\* the step is a step of the handling of an HTTP request (the startup
\* bootstrap is not)
RequestStep == last' # last /\ last'.route # "startup"

\* C2 as stated: over every route SetupRoutes registers, a request that
\* arrived without a valid, unexpired bearer token leaves the users
\* collection unchanged at every database call it makes.
C2_AsStated ==
    [][(RequestStep /\ ~CarriesValidToken(last'.header, last'.at))
          => users' = users]_vars

\* C3 as stated: a team registration sent to POST /team-registrations without
\* an Authorization header is not answered 401.
C3_AsStated ==
    ~(/\ last.route = "CreateTeamRegistration"
      /\ last.header = NoHeader
      /\ last.status = 401)

\* the step belongs to a request to the named route that passed the
\* middleware with a token whose role claim is not the given one
ByOtherRole(route, role) ==
    /\ last'.route = route
    /\ CarriesValidToken(last'.header, last'.at)
    /\ last'.header.token.role # role

\* C4 as stated: with a valid token and any body, allocate by a requester whose
\* role is not "admin" is answered 403 and evaluate by a requester whose role
\* is not "judge" is answered 403, and either leaves the registrations
\* unchanged.
C4_AsStated ==
    [][/\ ByOtherRole("AllocateTeamToJudge", "admin") =>
              (last'.status = 403 /\ teams' = teams)
       /\ ByOtherRole("JudgeEvaluateTeam", "judge") =>
              (last'.status = 403 /\ teams' = teams)]_vars

\* C4 (amended): with a valid token, allocate by a requester whose role is not
\* "admin" is answered 403 when the body carries a non-empty judgeId and 400
\* when it does not; evaluate by a requester whose role is not "judge" is
\* answered 403 whatever its body; in all these cases the registrations are
\* unchanged.
C4_RoleGates ==
    [][/\ ByOtherRole("AllocateTeamToJudge", "admin") =>
              /\ last'.status = IF last'.req.judgeId = "" THEN 400 ELSE 403
              /\ teams' = teams
       /\ ByOtherRole("JudgeEvaluateTeam", "judge") =>
              (last'.status = 403 /\ teams' = teams)]_vars

\* a judge asked to allocate a stored registration to a judge and got 403
C4_Witness ==
    /\ last.route = "AllocateTeamToJudge" /\ last.status = 403
    /\ last.header.token.role = "judge"
    /\ last.req.judgeId # ""
    /\ \E i \in DOMAIN teams : teams[i].id = last.pid

\* C5 as stated: evaluate by a judge changes a registration only if it is
\* allocated to that judge; by any other judge it leaves the registrations
\* unchanged.
C5_AsStated ==
    [][(/\ last'.route = "JudgeEvaluateTeam"
        /\ last'.header.token.role = "judge"
        /\ \A i \in DOMAIN teams :
               teams[i].id = last'.pid =>
                   teams[i].allocatedJudgeId # last'.header.token.user_id)
       => teams' = teams]_vars

\* C6 as stated: creating a user, the approve/reject action and deleting a
\* registration change no stored state when the requester's role is not
\* "admin".
C6_AsStated ==
    [][(\/ ByOtherRole("CreateUser", "admin")
        \/ ByOtherRole("ApproveOrRejectTeamRegistration", "admin")
        \/ ByOtherRole("DeleteTeamRegistration", "admin"))
       => (users' = users /\ teams' = teams)]_vars

\* the entries of a members array whose name has a character that is not
\* whitespace
NonBlank(members) ==
    {i \in DOMAIN members :
        \E k \in DOMAIN members[i] : members[i][k] \notin Whitespace}

\* the body of a team registration passes the binding rules
ValidTeamBody(req) ==
    /\ Len(req.teamName) \in 1..MaxTeamNameLen
    /\ Len(req.institution) \in 1..200
    /\ req.track # ""
    /\ req.othersBind

\* the step is a CreateTeamRegistration call that reached the handler: it
\* runs the handler from its start to the answer of the team-name lookup
CreateTeamStep ==
    /\ last'.route = "CreateTeamRegistration" /\ last'.step = "begin"
    /\ last'.status # 401

\* the step refused the request with 400 and stored nothing
Refused400 == last'.status = 400 /\ teams' = teams /\ inflight' = inflight

\* the step let the request go on to the database service: no answer yet,
\* one more request in flight
GoesOn == last'.status = 0 /\ Len(inflight') = Len(inflight) + 1

\* the step is the insert of a CreateTeamRegistration call
CreateTeamInsertStep ==
    last'.route = "CreateTeamRegistration" /\ last'.step = "CreateTeamInsert"

\* the step stored the registration of the request, pending
StoredPending ==
    /\ Len(teams') = Len(teams) + 1
    /\ SubSeq(teams', 1, Len(teams)) = teams
    /\ teams'[Len(teams')].teamName = last'.req.teamName
    /\ teams'[Len(teams')].members = last'.req.members
    /\ teams'[Len(teams')].registrationStatus = "pending"

\* C9 as stated: with 0 or with 5 or more members of non-blank name
\* CreateTeamRegistration returns 400 and stores nothing; with 1 to 4 and an
\* unused team name the handler goes on to the database service, whose
\* insert stores the registration as pending and the answer is 201.
C9_AsStated ==
    [][/\ CreateTeamStep =>
              LET n == Cardinality(NonBlank(last'.req.members))
              IN IF n = 0 \/ n >= 5
                 THEN Refused400
                 ELSE (\A i \in DOMAIN teams :
                           teams[i].teamName # last'.req.teamName) => GoesOn
       /\ CreateTeamInsertStep => (last'.status = 201 /\ StoredPending)]_vars

\* C9 (amended): for a body that passes the binding rules,
\* CreateTeamRegistration with 0 or with 5 or more members of non-blank name
\* returns 400 and stores nothing, and with 1 to 4 and an unused team name
\* the handler goes on to the database service, whose insert stores the
\* registration as pending and the answer is 201; a body that fails the
\* binding rules gets 400 and stores nothing, whatever its members.
C9_TeamSize ==
    [][/\ CreateTeamStep =>
              LET n == Cardinality(NonBlank(last'.req.members))
              IN IF ~ValidTeamBody(last'.req) \/ n = 0 \/ n >= 5
                 THEN Refused400
                 ELSE (\A i \in DOMAIN teams :
                           teams[i].teamName # last'.req.teamName) => GoesOn
       /\ CreateTeamInsertStep => (last'.status = 201 /\ StoredPending)]_vars

\* a registration with four named members and a blank one was stored
C9_Witness ==
    /\ last.route = "CreateTeamRegistration" /\ last.status = 201
    /\ Cardinality(NonBlank(last.req.members)) = 4
    /\ Len(last.req.members) = 5
    /\ \E i \in DOMAIN teams :
           teams[i].id = last.id /\ teams[i].registrationStatus = "pending"

\* C10 as stated: after any sequence of create and partial-update operations,
\* every stored registration has between 1 and 4 members (entries of
\* non-blank name) in its members list.
C10_AsStated ==
    \A i \in DOMAIN teams :
        Cardinality(NonBlank(teams[i].members)) \in MinMembers..MaxMembers

\* C11 as stated: with requests processed one at a time, after any sequence
\* of creations and deletions no two stored registrations share a
\* registration number or a team id.
C11_AsStated ==
    \A i, j \in DOMAIN teams :
        i # j => /\ teams[i].registrationNumber # teams[j].registrationNumber
                 /\ teams[i].teamId # teams[j].teamId

\* the step is the insert of the creation in flight at position k
InsertOf(k) ==
    /\ inflight[k].pc = "CreateTeamInsert"
    /\ inflight' = RemoveAt(inflight, k)
    /\ Len(teams') = Len(teams) + 1

\* the step is the count of the creation in flight at position k
CountOf(k) ==
    /\ inflight[k].pc = "CreateTeamCount"
    /\ Len(inflight') = Len(inflight)
    /\ inflight'[k].pc = "CreateTeamInsert"

\* C12: the count read and the insert of a creation are not atomic: the count
\* step reads the number of stored registrations, and the insert, a later
\* step, gives its registration the number and the team id formatted from
\* the count that was read, whatever the collection holds by then; so two
\* overlapping calls with different team names can both succeed with the
\* same registration number and the same team id (the witness).
C12_NumbersFromCountRead ==
    [][\A k \in DOMAIN inflight :
          /\ CountOf(k) =>
                 (inflight'[k].loc.count = Len(teams) /\ teams' = teams)
          /\ InsertOf(k) =>
                 /\ last'.status = 201
                 /\ teams'[Len(teams')].registrationNumber
                        = "PCCOEIGC" \o Sprintf03d(inflight[k].loc.count + 1)
                 /\ teams'[Len(teams')].teamId
                        = "IGC" \o Sprintf03d(inflight[k].loc.count + 1)]_vars

\* two overlapping creations with different team names were both stored,
\* with one registration number and one team id
C12_Witness ==
    /\ last.route = "CreateTeamRegistration" /\ last.status = 201
    /\ inflight = <<>>
    /\ \E i, j \in DOMAIN teams :
           /\ i # j
           /\ teams[i].teamName # teams[j].teamName
           /\ teams[i].registrationNumber = teams[j].registrationNumber
           /\ teams[i].teamId = teams[j].teamId

\* the step belongs to a request to the action endpoint that passed the
\* middleware, asks for this action and is at this point of the handler (no
\* step of a handler moves the clock)
ActionStep(action, step) ==
    /\ last'.route = "ApproveOrRejectTeamRegistration"
    /\ last'.status # 401
    /\ last'.req.action = action
    /\ last'.step = step
    /\ now' = now

\* C13: an approve action (with its actionedBy) on a stored registration
\* that decodes, pending or already approved, is taken on; its write leaves
\* the registration approved, with approvedAt set to the time of the call
\* and actionedBy to the actor; and it is answered 200 when the registration
\* is still stored, and decodes, at the read that follows the write. So
\* approving twice succeeds twice and the status is approved after both
\* writes.
C13_ApproveTwice ==
    [][\A i \in DOMAIN teams :
          last'.pid = teams[i].id =>
              /\ (/\ ActionStep("approve", "begin")
                  /\ last'.req.actionedBy # ""
                  /\ Decodes(teams[i])
                  /\ teams[i].registrationStatus \in {"pending", "approved"})
                 => (GoesOn /\ teams' = teams)
              /\ ActionStep("approve", "TeamUpdateOne")
                 => /\ Len(teams') = Len(teams)
                    /\ teams'[i].registrationStatus = "approved"
                    /\ teams'[i].approvedAt = last'.at
                    /\ teams'[i].approvedAt # NilTime
                    /\ teams'[i].actionedBy = last'.req.actionedBy
              /\ (ActionStep("approve", "TeamReadBack") /\ Decodes(teams[i]))
                 => (last'.status = 200 /\ teams' = teams)]_vars

\* a registration that the same actor had approved was approved again: the
\* answer is 200 and the registration is approved
C13_Witness ==
    /\ last.route = "ApproveOrRejectTeamRegistration" /\ last.status = 200
    /\ last.req.action = "approve"
    /\ last.was # NoBody
    /\ last.was.registrationStatus = "approved"
    /\ last.was.actionedBy = last.req.actionedBy
    /\ \E i \in DOMAIN teams :
           /\ teams[i].id = last.pid
           /\ teams[i].registrationStatus = "approved"
           /\ teams[i].approvedAt # NilTime

\* the stored registration i is rejected after the step, with the reason of
\* the request
RejectedWithReason(i) ==
    /\ Len(teams') = Len(teams)
    /\ teams'[i].registrationStatus = "rejected"
    /\ teams'[i].rejectionReason = last'.req.reason

\* C14 as stated: a reject action with an empty reason returns 400 and
\* changes nothing; with a non-empty reason on an existing registration it
\* is taken on, and its write sets the status to rejected and stores that
\* reason.
C14_AsStated ==
    [][/\ ActionStep("reject", "begin") =>
              IF last'.req.reason = ""
              THEN Refused400
              ELSE (\E i \in DOMAIN teams : last'.pid = teams[i].id) => GoesOn
       /\ \A i \in DOMAIN teams :
              (ActionStep("reject", "TeamUpdateOne") /\ last'.pid = teams[i].id)
                  => RejectedWithReason(i)]_vars

\* C14 (amended): a reject action with an empty reason, or without
\* actionedBy, returns 400 and changes nothing; with both on an existing
\* registration that decodes it is taken on, its write sets the status to
\* rejected and stores that reason, and it is answered 200 when the
\* registration is still stored, and decodes, at the read that follows the
\* write.
C14_Reject ==
    [][/\ ActionStep("reject", "begin") =>
              IF last'.req.reason = "" \/ last'.req.actionedBy = ""
              THEN Refused400
              ELSE (\E i \in DOMAIN teams :
                        last'.pid = teams[i].id /\ Decodes(teams[i])) => GoesOn
       /\ \A i \in DOMAIN teams :
              last'.pid = teams[i].id =>
                  /\ ActionStep("reject", "TeamUpdateOne")
                         => RejectedWithReason(i)
                  /\ (ActionStep("reject", "TeamReadBack") /\ Decodes(teams[i]))
                         => (last'.status = 200 /\ teams' = teams)]_vars

\* a reject with a reason was answered 200 and the registration carries it
C14_Witness ==
    /\ last.route = "ApproveOrRejectTeamRegistration" /\ last.status = 200
    /\ last.req.action = "reject" /\ last.req.reason = "late"
    /\ \E i \in DOMAIN teams :
           /\ teams[i].id = last.pid
           /\ teams[i].registrationStatus = "rejected"
           /\ teams[i].rejectionReason = "late"

\* C15 as stated: the only status changes of a stored registration are
\* pending to approved and pending to rejected: an approved registration
\* never becomes rejected, a rejected one never becomes approved.
C15_AsStated ==
    [][\A i \in DOMAIN teams : \A j \in DOMAIN teams' :
          (/\ teams[i].id = teams'[j].id
           /\ teams[i].registrationStatus # teams'[j].registrationStatus)
          => /\ teams[i].registrationStatus = "pending"
             /\ teams'[j].registrationStatus \in {"approved", "rejected"}]_vars

\* C16: a stored registration whose status is approved or rejected is never
\* pending after a step, whatever the handler and whatever else is in
\* flight.
C16_NeverPendingAgain ==
    [][\A i \in DOMAIN teams : \A j \in DOMAIN teams' :
          (/\ teams[i].id = teams'[j].id
           /\ teams[i].registrationStatus \in {"approved", "rejected"})
          => teams'[j].registrationStatus # "pending"]_vars

\* a decided registration was edited with a body asking for "pending", the
\* edit was accepted, and the registration is still decided
C16_Witness ==
    /\ last.route = "UpdateTeamRegistration" /\ last.status = 200
    /\ last.req.registrationStatus = "pending"
    /\ \E i \in DOMAIN teams :
           /\ teams[i].id = last.pid
           /\ teams[i].registrationStatus \in {"approved", "rejected"}

\* the bodies of a partial update: a team name, members, a track (the empty
\* one included) and other fields, each present or absent, and with them a
\* "registrationStatus" key of each status, or none
UpdateBodies ==
    LET plain == { UpdateTeamReq(n, nil, <<>>, o) :
                       n \in {"", "Beta"}, nil \in BOOLEAN,
                       o \in {"none", "valid"} }
        tracked == plain \cup { WithTrack(b, t) :
                                    b \in plain,
                                    t \in {"", "Smart Agriculture"} }
    IN tracked \cup { [b EXCEPT !.registrationStatus = st] :
                          b \in tracked,
                          st \in {"pending", "approved", "rejected"} }

\* C17 as stated: the partial update changes registrationStatus for some
\* body: for each stored registration there is a request body whose
\* updateData, written by the UpdateOne of the partial update, leaves the
\* registration with another status than it had.
C17_AsStated ==
    \A i \in DOMAIN teams :
        \E req \in UpdateBodies :
            UpdateOne(teams, teams[i].id, UpdateData(req))[i].registrationStatus
                # teams[i].registrationStatus

\* C17 (amended): no step of a request to the partial update changes the
\* status of a registration, whatever its body, and every step that changes
\* the status of a stored registration is a step of a request to the action
\* or the evaluate endpoint.
C17_UpdateKeepsStatus ==
    [][/\ last'.route = "UpdateTeamRegistration" =>
              /\ Len(teams') = Len(teams)
              /\ \A i \in DOMAIN teams :
                     /\ teams'[i].id = teams[i].id
                     /\ teams'[i].registrationStatus
                            = teams[i].registrationStatus
       /\ \A i \in DOMAIN teams : \A j \in DOMAIN teams' :
              (/\ teams[i].id = teams'[j].id
               /\ teams[i].registrationStatus # teams'[j].registrationStatus)
              => last'.route \in {"ApproveOrRejectTeamRegistration",
                                  "JudgeEvaluateTeam"}]_vars

\* an update whose body names the status "approved" was accepted for a
\* registration that is still pending
C17_Witness ==
    /\ last.route = "UpdateTeamRegistration" /\ last.status = 200
    /\ last.req.registrationStatus = "approved"
    /\ \E i \in DOMAIN teams :
           teams[i].id = last.pid /\ teams[i].registrationStatus = "pending"

\* the string is a decimal numeral
IsNumeral(s) ==
    s # <<>> /\ \A k \in DOMAIN s : \E d \in 0..9 : ToString(d) = s[k]

\* the number a decimal numeral denotes
RECURSIVE DecimalValue(_)
DecimalValue(s) ==
    IF s = <<>> THEN 0
    ELSE 10 * DecimalValue(SubSeq(s, 1, Len(s) - 1))
         + (CHOOSE d \in 0..9 : ToString(d) = s[Len(s)])

\* a numeral of at most nine digits, whose value no 64-bit arithmetic changes
ShortNumeral(s) == IsNumeral(s) /\ Len(s) <= 9

\* the last request was a listing of team registrations that was answered
ListedTeams ==
    last.route = "GetAllTeamRegistrations" /\ last.status = 200

\* the stored registrations the filter of the last request selects: the
\* status and the track are compared for equality, the institution is
\* searched for the parameter as a pattern, ignoring case
MatchingTeams ==
    {i \in DOMAIN teams :
        /\ last.req.status = "" \/ teams[i].registrationStatus = last.req.status
        /\ last.req.track = "" \/ teams[i].track = last.req.track
        /\ last.req.institution = <<>>
           \/ RegexMatches(teams[i].institution, last.req.institution)}

\* C18: with no write between the two calls of the listing, a listing with
\* page p >= 1 and limit l in 1..100 returns the registrations at positions
\* (p-1)*l+1 .. p*l of the matching set in descending order of submission
\* time: as many as that range holds, each one matching, none twice, and the
\* k-th of them at rank (p-1)*l+k (fewer than that many matching
\* registrations are newer, at least that many are as new or newer).
C18_PageBySubmissionTime ==
    (/\ ListedTeams
     /\ ShortNumeral(last.req.page) /\ DecimalValue(last.req.page) >= 1
     /\ ShortNumeral(last.req.limit) /\ DecimalValue(last.req.limit) \in 1..100)
    => LET l == DecimalValue(last.req.limit)
           skip == (DecimalValue(last.req.page) - 1) * l
           n == Cardinality(MatchingTeams)
           items == last.body.items
       IN /\ Len(items) = IF n - skip >= l THEN l
                          ELSE IF n - skip > 0 THEN n - skip ELSE 0
          /\ \A a, b \in DOMAIN items : a # b => items[a] # items[b]
          /\ \A k \in DOMAIN items :
                \E i \in MatchingTeams :
                    /\ teams[i].id = items[k]
                    /\ Cardinality({j \in MatchingTeams :
                           teams[j].submittedAt > teams[i].submittedAt})
                          <= skip + k - 1
                    /\ Cardinality({j \in MatchingTeams :
                           teams[j].submittedAt >= teams[i].submittedAt})
                          >= skip + k

\* page 2 with limit 1 over three registrations, the newest submitted later
\* than the others, returned one registration that is not the newest
C18_Witness ==
    /\ ListedTeams
    /\ last.req.page = <<"2">> /\ last.req.limit = <<"1">>
    /\ last.req.status = "" /\ last.req.track = ""
    /\ last.req.institution = <<>>
    /\ Len(teams) = 3
    /\ Len(last.body.items) = 1
    /\ \E i, j \in DOMAIN teams :
           /\ teams[i].submittedAt > teams[j].submittedAt
           /\ teams[j].id = last.body.items[1]

\* C19 as stated: the total of a team listing is the number of stored
\* registrations that match the filter of the request.
C19_AsStated ==
    ListedTeams => last.body.total = Cardinality(MatchingTeams)

\* the last request was a listing of users or of team registrations that was
\* answered
Listed ==
    /\ last.route \in {"GetAllUsers", "GetAllTeamRegistrations"}
    /\ last.status = 200

\* C20 as stated, for the parameters of at most nine digits: the effective
\* page is 1 and the effective limit is 10 when the parameter is absent, not
\* a numeral or not positive; a limit above 100 gives 100; the effective
\* limit is within 1..100.
C20_AsStated ==
    Listed =>
        /\ (~IsNumeral(last.req.page)
            \/ (ShortNumeral(last.req.page) /\ DecimalValue(last.req.page) <= 0))
              => last.body.page = Word(1)
        /\ (~IsNumeral(last.req.limit)
            \/ (ShortNumeral(last.req.limit) /\ DecimalValue(last.req.limit) <= 0))
              => last.body.limit = 10
        /\ (ShortNumeral(last.req.limit) /\ DecimalValue(last.req.limit) > 100)
              => last.body.limit = 100
        /\ last.body.limit \in 1..100

\* the value of a numeral after the handler's parseInt, which accumulates in
\* a signed 64-bit integer: the value itself for a short numeral; for the
\* long numerals of the requests, 2^63 wraps to a negative number (-1 stands
\* for it), 2^64+5 to 5 and 2^64+100 to 100
Int64Value(s) ==
    IF Len(s) <= 9 THEN DecimalValue(s)
    ELSE IF s = TwoTo64Plus5 THEN 5
    ELSE IF s = TwoTo64Plus100 THEN 100
    ELSE -1

\* C20 (amended): with v the value of the parameter when it is a numeral,
\* reduced to a signed 64-bit integer as parseInt accumulates it, the
\* effective page is v when v >= 1 and 1 otherwise (absent, not a numeral,
\* zero, or wrapped to a negative number); the effective limit is v when v
\* is within 1..100 and 10 otherwise, also for a value above 100; the
\* effective limit is within 1..100; and a page so large that (page-1)*limit
\* wraps to a negative skip is answered 500.
C20_EffectivePaging ==
    /\ Listed =>
        /\ last.req.page # Int64Max
        /\ last.body.page =
              IF IsNumeral(last.req.page) /\ Int64Value(last.req.page) >= 1
              THEN Word(Int64Value(last.req.page)) ELSE Word(1)
        /\ last.body.limit =
              IF IsNumeral(last.req.limit)
                 /\ Int64Value(last.req.limit) \in 1..100
              THEN Int64Value(last.req.limit) ELSE 10
        /\ last.body.limit \in 1..100
    /\ (/\ last.route \in {"GetAllUsers", "GetAllTeamRegistrations"}
        /\ last.status # 401
        /\ last.req.page = Int64Max)
          => last.status = 500

\* a listing asked for limit=101 and was served with limit 10
C20_Witness ==
    /\ Listed
    /\ last.req.limit = <<"1", "0", "1">>
    /\ last.body.limit = 10

\* the previous request created a registration, and this step is a fetch of
\* it through the named route with the named key
FetchAfterCreate(route, key) ==
    /\ last.route = "CreateTeamRegistration" /\ last.status = 201
    /\ last'.route = route
    /\ last'.status # 401
    /\ last'.pid = key

\* C21 as stated: after any creations and deletions, fetching a registration
\* just created by its id, and by its registration number, is answered 200
\* with the registration of the create response.
C21_AsStated ==
    [][/\ FetchAfterCreate("GetTeamRegistration", last.body.id)
            => (last'.status = 200 /\ last'.body = last.body)
       /\ FetchAfterCreate("GetTeamRegistrationByRegNumber",
                           last.body.registrationNumber)
            => (last'.status = 200 /\ last'.body = last.body)]_vars

\* C22 as stated: with requests handled one at a time, after any sequence of
\* creations and partial updates no two stored registrations have the same
\* team name.
C22_AsStated ==
    \A i, j \in DOMAIN teams : i # j => teams[i].teamName # teams[j].teamName

\* the step answers a request to a route that addresses a team registration
\* by id, with a well-formed id that no stored registration has, and the
\* request was not refused for its token, its role or its body
MissingTeamStep ==
    /\ last'.route \in {"GetTeamRegistration", "UpdateTeamRegistration",
                        "DeleteTeamRegistration",
                        "ApproveOrRejectTeamRegistration",
                        "AllocateTeamToJudge", "JudgeEvaluateTeam"}
    /\ last'.status \notin {0, 400, 401, 403}
    /\ ObjectIDFromHexOK(last'.pid)
    /\ \A i \in DOMAIN teams : teams[i].id # last'.pid

\* the same for the routes that address a user by id
MissingUserStep ==
    /\ last'.route \in {"GetUser", "UpdateUser", "DeleteUser"}
    /\ last'.status \notin {0, 400, 401, 403}
    /\ ObjectIDFromHexOK(last'.pid)
    /\ \A i \in DOMAIN users : users[i].id # last'.pid

\* C23 as stated: a handler that addresses a user or a registration by id
\* answers 404 for a well-formed id that no stored document has, and changes
\* nothing.
C23_AsStated ==
    [][(MissingTeamStep \/ MissingUserStep)
          => (last'.status = 404 /\ users' = users /\ teams' = teams)]_vars

\* the step is the arrival of a request at a route of SpecExpiry that is
\* behind the middleware
BehindMiddleware ==
    /\ now' = now
    /\ last'.route \in {"UpdateUser", "DeleteUser"}
    /\ last'.step = "begin"

\* the request was answered 401 and changed nothing: it did not reach the
\* handler
Rejected401 ==
    last'.status = 401 /\ users' = users /\ teams' = teams
        /\ inflight' = inflight

\* C24: a login at time t issues a token that expires at t + 24; behind the
\* middleware a request with an issued token is not answered 401 at a time
\* before the expiry and is answered 401, changing nothing, at a time after
\* it; a request with no header, a header that is not Bearer, a malformed
\* token, a token of another signing method or a token not signed with the
\* server secret is answered 401 and changes nothing.
C24_TokenLifetime ==
    [][/\ (last'.route = "Login" /\ now' = now /\ last'.status = 200)
            => last'.token.exp = now + 24
       /\ BehindMiddleware =>
            /\ (/\ last'.header.scheme = "Bearer"
                /\ last'.header.token \in issued
                /\ now < last'.header.token.exp) => last'.status # 401
            /\ (/\ last'.header.scheme = "Bearer"
                /\ last'.header.token \in issued
                /\ now > last'.header.token.exp) => Rejected401
            /\ (\/ last'.header.scheme # "Bearer"
                \/ ~last'.header.token.wellformed
                \/ last'.header.token.alg \notin {"HS256", "HS384", "HS512"}
                \/ last'.header.token.key # "server") => Rejected401]_vars

\* a token the server issued was refused after its expiry
C24_Witness ==
    /\ last.route \in {"UpdateUser", "DeleteUser"} /\ last.status = 401
    /\ last.header.scheme = "Bearer"
    /\ last.header.token \in issued
    /\ now > last.header.token.exp

\* two stored users carry the same username
SharedUsername ==
    \E i, j \in DOMAIN users : i < j /\ users[i].username = users[j].username

\* the step is the insert of the user creation in flight at position k
InsertUserOf(k) ==
    /\ inflight[k].pc = "InsertUser"
    /\ inflight' = RemoveAt(inflight, k)
    /\ last'.route = inflight[k].route

\* C25: the username pre-check and the insert are separate steps, and the
\* insert looks nothing up again: every creation that passed its pre-check
\* stores its user when it completes, whatever was stored in between (the
\* HTTP ones answering 201), so two concurrent creations of one username that
\* both passed the pre-check leave two users with that username.
C25_InsertAfterStalePreCheck ==
    [][\A k \in DOMAIN inflight :
          InsertUserOf(k) =>
              /\ Len(users') = Len(users) + 1
              /\ SubSeq(users', 1, Len(users)) = users
              /\ \E j \in DOMAIN inflight :
                     /\ inflight[j].pc = "InsertUser"
                     /\ users'[Len(users')].username
                            = inflight[j].loc.user.username
              /\ last'.route # "startup" => last'.status = 201]_vars

\* two users named alike are stored, the second by an insert whose pre-check
\* had passed before the first was stored
C25_Witness ==
    /\ SharedUsername
    /\ last.status = 201
    /\ last.route \in {"CreateUser", "CreateDefaultAdmin"}
    /\ users[Len(users)].id = last.id
    /\ \E i \in 1..(Len(users) - 1) :
           users[i].username = users[Len(users)].username

\* C26 as stated: every stored registration whose status is rejected carries
\* a non-empty rejection reason, whether it was rejected through the action
\* endpoint or through a judge's evaluation.
C26_AsStated ==
    \A i \in DOMAIN teams :
        teams[i].registrationStatus = "rejected" => teams[i].rejectionReason # ""

\* C27 as stated: whenever a stored registration names an allocated judge,
\* that id is the id of a stored user whose role is judge.
C27_AsStated ==
    \A i \in DOMAIN teams :
        teams[i].allocatedJudgeId # "" =>
            \E k \in DOMAIN users :
                /\ users[k].id = teams[i].allocatedJudgeId
                /\ users[k].role = "judge"

\* C28 as stated: the audit fields of every stored registration agree with
\* its status: pending has neither approvedAt nor rejectedAt; approved has
\* approvedAt and neither rejectedAt nor a rejection reason; rejected has
\* rejectedAt and no approvedAt.
C28_AsStated ==
    \A i \in DOMAIN teams :
        LET tm == teams[i]
        IN /\ tm.registrationStatus = "pending" =>
                  tm.approvedAt = NilTime /\ tm.rejectedAt = NilTime
           /\ tm.registrationStatus = "approved" =>
                  /\ tm.approvedAt # NilTime
                  /\ tm.rejectedAt = NilTime
                  /\ tm.rejectionReason = ""
           /\ tm.registrationStatus = "rejected" =>
                  tm.rejectedAt # NilTime /\ tm.approvedAt = NilTime

\* the step is the arrival of a request at a route of SpecSession that is
\* behind the middleware
SessionStep ==
    /\ now' = now
    /\ last'.step = "begin"
    /\ last'.route \in {"CreateUser", "CreateTeamRegistration",
                        "AllocateTeamToJudge", "JudgeEvaluateTeam",
                        "UpdateUser", "DeleteUser"}

\* C29: behind the middleware a request is answered 401 exactly when its
\* header carries no valid unexpired token, and the role and user id the
\* handler acts on are the token's: allocate answers 403 exactly when the
\* token's role is not admin, evaluate exactly when it is not judge, and an
\* evaluation that writes is recorded under the token's user id.  None of
\* this reads the users collection, so deleting or changing the token's user
\* changes neither the decision nor the role.
C29_TokenAlone ==
    [][SessionStep =>
          /\ last'.status = 401 <=> ~CarriesValidToken(last'.header, now)
          /\ (last'.route = "AllocateTeamToJudge" /\ last'.status # 401) =>
                 (last'.status = 403 <=> last'.header.token.role # "admin")
          /\ (last'.route = "JudgeEvaluateTeam" /\ last'.status # 401) =>
                 (last'.status = 403 <=> last'.header.token.role # "judge")
          /\ (last'.route = "JudgeEvaluateTeam" /\ GoesOn) =>
                 \A i \in DOMAIN teams :
                     teams[i].id = last'.pid =>
                         /\ Len(teams') = Len(teams)
                         /\ teams'[i].actionedBy = last'.header.token.user_id]_vars

\* an allocation was made with the token of an admin who is no longer stored
C29_Witness ==
    /\ last.route = "AllocateTeamToJudge"
    /\ last.status = 200
    /\ last.header.token.role = "admin"
    /\ GetUserByID(users, last.header.token.user_id).err = "notfound"
    /\ \E i \in DOMAIN teams :
           teams[i].id = last.pid /\ teams[i].allocatedJudgeId = last.req.judgeId

\* C30 as stated, for CreateTeamRegistration: when the team name lookup made
\* before the insert fails with an error other than not-found, the create
\* does not proceed: the request does not go on to the count and the insert.
C30_AsStated ==
    [][(/\ last'.route = "CreateTeamRegistration"
        /\ last'.step = "begin"
        /\ last'.status \notin {401, 400}
        /\ GetTeamRegistrationByTeamName(teams, last'.req.teamName).err = "decode")
          => (last'.status # 0 /\ inflight' = inflight)]_vars
====
